---- MODULE Spec2Model ----
(***************************************************************************)
(* A model of the core of the vale prose linter: core.File (alerts,        *)
(* in-text comment control), core.Selector, the check.Manager rule         *)
(* compiler and the occurrence / repetition matchers.                      *)
(*                                                                         *)
(* Strings are sequences of one-character strings (ASCII only, so a byte   *)
(* offset and a rune offset agree); "\n" is the newline character.  A run  *)
(* of characters that no modelled operation looks into (a level name, an   *)
(* extension point, a token of a scope) is written as one element.  Go     *)
(* maps are functions with a finite domain; reading a missing key gives    *)
(* the zero value.                                                         *)
(***************************************************************************)
EXTENDS Integers, Sequences, FiniteSets, TLC

VARIABLES
    Comments,      \* File.Comments: map[string]bool
    seen,          \* log of the calls made on File.Comments so far
    selS,          \* receiver selector value of the last Selector call
    selArg,        \* argument of the last Selector call
    selOut,        \* the last Selector call and its result
    AllChecks,     \* Manager.AllChecks: map[string]Check
    Scopes,        \* Manager.Scopes: map[string]struct{}
    RuleToLevel,   \* Config.RuleToLevel: map[string]string
    dirKinds,      \* the walked style directory: what kind of entry each file is
    pos,           \* number of directory entries the walk has visited
    crashed,       \* TRUE once a Go panic has ended the process
    call,          \* the last loadCheck call: its name, its input and its result
    Alerts,        \* File.Alerts
    history,       \* File.history: the keys of the map
    ChkToCtx,      \* File.ChkToCtx: map[string]string
    fileCfg,       \* File.Format, File.Simple and File.Lines
    lastAdd,       \* the last AddAlert call and what became of its alert
    nAdds,         \* number of AddAlert calls so far
    txt,           \* the scope text handed to a rule
    chk,           \* the rule's definition
    ruleRes,       \* what the rule's call came to: its alerts, or a panic
    Sequences,     \* File.Sequences
    scanned,       \* the scope texts of the file scanned so far
    nScans,        \* number of scopes scanned so far
    compiled,      \* the rules compiled from the manifest chk, one per load
    runs,          \* the result of each compiled rule on txt
    made,          \* NewManager has returned
    invocation,    \* the command line, the configuration file and what linting will find
    process,       \* how far main got: what it ran and the exit status
    newFiles       \* the result of each NewFile call for one path and one Config

vars == <<Comments, seen, selS, selArg, selOut,
          AllChecks, Scopes, RuleToLevel, dirKinds, pos, crashed, call,
          Alerts, history, ChkToCtx, fileCfg, lastAdd, nAdds, txt, chk, ruleRes,
          Sequences, scanned, nScans, compiled, runs, made,
          invocation, process, newFiles>>

(***************************************************************************)
(* Bounds                                                                  *)
(***************************************************************************)
MaxComments == 3
MaxSelLen == 3
MaxFiles == 3
MaxAdds == 2
MaxWords == 4
MaxCount == 2
MaxScans == 3
MaxLoads == 2

(***************************************************************************)
(* Strings                                                                 *)
(***************************************************************************)
Letters == {"a", "b", "A", "S", "R", "Q", "w", "g", "o", "f", "x"}
Digits == {"0", "1", "2", "3", "4", "5", "6", "7", "8", "9"}

\* the class \w of a Go regular expression
WordChar(c) == c \in Letters \cup Digits \cup {"_"}

\* the class . of a Go regular expression (no s flag): anything but newline
AnyChar(c) == c # "\n"

AllWord(s, lo, hi) == \A k \in lo..hi : WordChar(s[k])

\* whether sub occurs in s at (1-based) position i
OccursAt(s, sub, i) ==
    /\ i >= 1
    /\ i + Len(sub) - 1 <= Len(s)
    /\ \A k \in 1..Len(sub) : s[i + k - 1] = sub[k]

\* strings.Index: 0-based offset of the first occurrence, -1 when absent
Index(s, sub) ==
    IF \E i \in 1..(Len(s) + 1) : OccursAt(s, sub, i)
    THEN (CHOOSE i \in 1..(Len(s) + 1) :
              /\ OccursAt(s, sub, i)
              /\ \A j \in 1..(i - 1) : ~OccursAt(s, sub, j)) - 1
    ELSE -1

\* strings.Contains
Contains(s, sub) == Index(s, sub) >= 0

\* Go map read with the zero value (false) for a missing key
MapGet(m, k) == IF k \in DOMAIN m THEN m[k] ELSE FALSE

\* Go map write
MapPut(m, k, v) == [x \in DOMAIN m \cup {k} |-> IF x = k THEN v ELSE m[x]]

(***************************************************************************)
(* core.File: in-text comment control                                      *)
(***************************************************************************)
ValePrefix == <<"v", "a", "l", "e", " ">>
ValeOff == ValePrefix \o <<"o", "f", "f">>
ValeOn == ValePrefix \o <<"o", "n">>
OffKey == <<"o", "f", "f">>
EqYES == <<" ", "=", " ", "Y", "E", "S">>
EqNO == <<" ", "=", " ", "N", "O">>

HasPrefix(s, p) == Len(s) >= Len(p) /\ SubSeq(s, 1, Len(p)) = p
HasSuffix(s, p) == Len(s) >= Len(p) /\ SubSeq(s, Len(s) - Len(p) + 1, Len(s)) = p

\* the group (\w+.\w+) of commentControlRE matched against a whole string
RuleGroupMatches(g) ==
    \E i \in 1..(Len(g) - 2) :
        /\ AllWord(g, 1, i)
        /\ AnyChar(g[i + 1])
        /\ AllWord(g, i + 2, Len(g))

\* commentControlRE.FindStringSubmatch: <<>> when there is no match, else
\* <<whole, group 1, group 2>>.  The pattern is anchored at both ends and the
\* value is its last token, so the group is what lies between the prefix and
\* the " = YES" / " = NO" suffix.
CommentControlSubmatch(comment) ==
    LET tail == IF HasSuffix(comment, EqYES) THEN EqYES
                ELSE IF HasSuffix(comment, EqNO) THEN EqNO ELSE <<>>
        grp == SubSeq(comment, Len(ValePrefix) + 1, Len(comment) - Len(tail))
    IN  IF /\ tail # <<>>
           /\ HasPrefix(comment, ValePrefix)
           /\ Len(comment) >= Len(ValePrefix) + Len(tail)
           /\ RuleGroupMatches(grp)
        THEN <<comment, grp, SubSeq(tail, 4, Len(tail))>>
        ELSE <<>>

\* File.UpdateComments: the Comments map after the call
UpdateCommentsMap(cm, comment) ==
    IF comment = ValeOff THEN MapPut(cm, OffKey, TRUE)
    ELSE IF comment = ValeOn THEN MapPut(cm, OffKey, FALSE)
    ELSE LET check == CommentControlSubmatch(comment)
         IN  IF check # <<>> /\ Len(check) = 3
             THEN MapPut(cm, check[2], check[3] = <<"N", "O">>)
             ELSE cm

\* File.QueryComments: TRUE when the check is suppressed
QueryCommentsMap(cm, check) ==
    IF ~MapGet(cm, OffKey) /\ check \in DOMAIN cm
    THEN cm[check]
    ELSE MapGet(cm, OffKey)

QueryComments(check) == QueryCommentsMap(Comments, check)

\* ResetComments that resets the global flag with the rules
ResetCommentsMapAll(cm) == [check \in DOMAIN cm |-> FALSE]

\* File.ResetComments: the Comments map after the call
ResetCommentsMap(cm) ==
    [check \in DOMAIN cm |-> IF check # OffKey THEN FALSE ELSE cm[check]]

\* rule names written in the directives of the modelled documents
RuleSR == <<"S", ".", "R">>
RuleSQ == <<"S", ".", "Q">>
RuleWG == <<"w", "-", "g", ".", "R">>
RuleSxR == <<"S", "x", "R">>
DirectiveNames == {RuleSR, RuleSQ, RuleWG, RuleSxR, OffKey}

Directive(name, val) == ValePrefix \o name \o (IF val = "YES" THEN EqYES ELSE EqNO)

\* the comments a document can pass to UpdateComments
CommentInputs ==
    {ValeOff, ValeOn, ValePrefix \o RuleSR}
        \cup {Directive(n, v) : n \in DirectiveNames, v \in {"YES", "NO"}}

ResetMark == <<"reset">>

CommentsInit ==
    /\ Comments = <<>>
    /\ seen = <<>>

CommentsIdle == UNCHANGED <<Comments, seen>>

UpdateComments ==
    /\ Len(seen) < MaxComments
    /\ \E comment \in CommentInputs :
        /\ Comments' = UpdateCommentsMap(Comments, comment)
        /\ seen' = Append(seen, comment)

ResetComments ==
    /\ Len(seen) < MaxComments
    /\ Comments' = ResetCommentsMap(Comments)
    /\ seen' = Append(seen, ResetMark)

(***************************************************************************)
(* Claims about comment control                                            *)
(***************************************************************************)
\* position in seen of the last "vale off" / "vale on", 0 when there is none
LastSwitchAt ==
    IF \E k \in 1..Len(seen) : seen[k] \in {ValeOff, ValeOn}
    THEN CHOOSE k \in 1..Len(seen) :
             /\ seen[k] \in {ValeOff, ValeOn}
             /\ \A j \in (k + 1)..Len(seen) : seen[j] \notin {ValeOff, ValeOn}
    ELSE 0

\* the value of the most recent directive for rule r since the last reset
LastDirective(r) ==
    LET hits == {k \in 1..Len(seen) :
                    /\ seen[k] \in {Directive(r, "YES"), Directive(r, "NO")}
                    /\ \A j \in k..Len(seen) : seen[j] # ResetMark}
    IN  IF hits = {} THEN "none"
        ELSE LET k == CHOOSE k \in hits : \A j \in hits : j <= k
             IN  IF seen[k] = Directive(r, "YES") THEN "YES" ELSE "NO"

\* names of the form Style.Rule: a dot with a non-empty style and rule around it
StyleQualified == {RuleSR, RuleSQ, RuleWG}

\* C2: from a `vale off` until the next `vale on`, QueryComments reports every
\* rule as suppressed, whatever other directives were seen before or since.
C2_OffSuppressesEveryRule ==
    (LastSwitchAt > 0 /\ seen[LastSwitchAt] = ValeOff)
        => \A r \in DirectiveNames \ {OffKey} : QueryComments(r)

\* C3: while the global flag is not off, the most recent `vale Style.Rule = NO`
\* makes QueryComments(Style.Rule) report suppressed and the most recent
\* `vale Style.Rule = YES` makes it report enabled, for every style-qualified
\* rule name, hyphenated style names included.
C3_LastRuleDirectiveWins ==
    ~MapGet(Comments, OffKey) =>
        \A r \in StyleQualified :
            /\ LastDirective(r) = "NO" => QueryComments(r)
            /\ LastDirective(r) = "YES" => ~QueryComments(r)

\* C26: File.ResetComments sets every per-rule entry back to active and leaves
\* the global `off` flag as it was: after it, QueryComments(r) is the global
\* flag for every rule r, named in a directive or not
C26_ResetLeavesOnlyTheGlobalFlag ==
    [][seen' = Append(seen, ResetMark) =>
          /\ DOMAIN Comments' = DOMAIN Comments
          /\ MapGet(Comments', OffKey) = MapGet(Comments, OffKey)
          /\ \A r \in DOMAIN Comments' \ {OffKey} : ~Comments'[r]
          /\ \A r \in DirectiveNames \cup {<<"x">>} :
                QueryCommentsMap(Comments', r) = MapGet(Comments, OffKey)]_vars

\* a reset came after `vale off` and a rule that a directive had suppressed
C26_Witness ==
    /\ seen # <<>> /\ seen[Len(seen)] = ResetMark
    /\ \E k \in 1..Len(seen) : seen[k] = Directive(RuleSR, "NO")
    /\ MapGet(Comments, OffKey)
    /\ RuleSR \in DOMAIN Comments

(***************************************************************************)
(* core.Selector                                                           *)
(***************************************************************************)
\* strings.Split(s, "."): the pieces of s between the dots (one empty piece
\* for the empty string)
RECURSIVE SplitDot(_)
SplitDot(s) ==
    LET i == Index(s, <<".">>)
    IN  IF i < 0 THEN <<s>>
        ELSE <<SubSeq(s, 1, i)>> \o SplitDot(SubSeq(s, i + 2, Len(s)))

\* core.StringInSlice
StringInSlice(str, slice) == \E k \in 1..Len(slice) : slice[k] = str

\* core.AllStringsInSlice
AllStringsInSlice(strs, slice) ==
    \A k \in 1..Len(strs) : StringInSlice(strs[k], slice)

\* Selector.Sections
Sections(value) == SplitDot(value)

SelectorContainsSwapped(s, sel) == AllStringsInSlice(Sections(s), Sections(sel))

\* Selector.Contains
SelectorContains(s, sel) == AllStringsInSlice(Sections(sel), Sections(s))

\* Selector.Equal
SelectorEqual(s, sel) == s = sel

\* Selector.Has
SelectorHas(s, scope) == StringInSlice(scope, Sections(s))

NoSelectorCall == [op |-> "none", res |-> FALSE]

RECURSIVE SeqsUpTo(_, _)
SeqsUpTo(alphabet, n) ==
    IF n = 0 THEN {<<>>}
    ELSE LET shorter == SeqsUpTo(alphabet, n - 1)
         IN  shorter \cup {Append(t, c) : t \in shorter, c \in alphabet}

\* dotted paths of non-empty tokens
SelectorValues ==
    {v \in SeqsUpTo({"a", "b", "."}, MaxSelLen) :
        \A k \in 1..Len(Sections(v)) : Sections(v)[k] # <<>>}

SelectorInit ==
    /\ selS \in SelectorValues
    /\ selArg \in SelectorValues
    /\ selOut = NoSelectorCall

SelectorIdleInit ==
    /\ selS = <<>>
    /\ selArg = <<>>
    /\ selOut = NoSelectorCall

SelectorIdle == UNCHANGED <<selS, selArg, selOut>>

CallContains ==
    /\ selOut = NoSelectorCall
    /\ selOut' = [op |-> "Contains", res |-> SelectorContains(selS, selArg)]
    /\ UNCHANGED <<selS, selArg>>

CallEqual ==
    /\ selOut = NoSelectorCall
    /\ selOut' = [op |-> "Equal", res |-> SelectorEqual(selS, selArg)]
    /\ UNCHANGED <<selS, selArg>>

CallHas ==
    /\ selOut = NoSelectorCall
    /\ selOut' = [op |-> "Has", res |-> SelectorHas(selS, selArg)]
    /\ UNCHANGED <<selS, selArg>>

\* whether the sequence b is an ordered subsequence of the sequence a
RECURSIVE IsSubsequence(_, _)
IsSubsequence(b, a) ==
    IF b = <<>> THEN TRUE
    ELSE IF a = <<>> THEN FALSE
    ELSE IF Head(a) = Head(b) THEN IsSubsequence(Tail(b), Tail(a))
    ELSE IsSubsequence(b, Tail(a))

SeqRange(q) == {q[k] : k \in 1..Len(q)}

\* C4 as stated: A.Contains(B) iff B's tokens are an ordered subsequence of A's.
C4_ContainsIsOrderedSubsequence ==
    (selOut.op = "Contains")
        => (selOut.res <=> IsSubsequence(Sections(selArg), Sections(selS)))

\* C4 amended: A.Contains(B) iff every token of B is one of the tokens of A,
\* whatever the order and the number of occurrences.
C4_ContainsIsTokenInclusion ==
    (selOut.op = "Contains")
        => (selOut.res <=> SeqRange(Sections(selArg)) \subseteq SeqRange(Sections(selS)))

\* a call where the tokens of B all occur in A, but not in B's order
C4_Witness ==
    /\ selOut = [op |-> "Contains", res |-> TRUE]
    /\ Len(Sections(selArg)) >= 2
    /\ ~IsSubsequence(Sections(selArg), Sections(selS))

(***************************************************************************)
(* check.Manager: loading rule manifests                                   *)
(***************************************************************************)
\* a value of the decoded YAML map: a missing key, a string, or an integer
Absent == [t |-> "absent", v |-> <<>>]
Str(str) == [t |-> "str", v |-> str]
IntVal == [t |-> "int", v |-> <<"7">>]

extensionPoints ==
    << <<"capitalization">>, <<"conditional">>, <<"consistency">>,
       <<"existence">>, <<"occurrence">>, <<"repetition">>,
       <<"substitution">>, <<"readability">>, <<"spelling">>, <<"sequence">> >>

TextScope == <<"text">>
SummaryScope == <<"summary">>
HeadingScope == <<"heading", ".", "h1">>
YmlSuffix == <<".", "y", "m", "l">>
StyleName == <<"S">>

\* core.LevelToInt, read as a Go map (0 for a level it does not hold)
LevelToInt(level) ==
    IF level = <<"suggestion">> THEN 0
    ELSE IF level = <<"warning">> THEN 1
    ELSE IF level = <<"error">> THEN 2
    ELSE 0

NilResult == [kind |-> "nil", name |-> <<>>, msg |-> ""]
NoResult == [kind |-> "none", name |-> <<>>, msg |-> ""]
PanicResult == [kind |-> "panic", name |-> <<>>, msg |-> ""]
\* fmt.Errorf(name + ": %s!", msg)
ErrorResult(name, msg) == [kind |-> "error", name |-> name, msg |-> msg]

\* validateDefinition; point.(string) panics when the value is not a string
validateDefinition(generic, name) ==
    IF generic.extends.t = "absent"
    THEN ErrorResult(name, "missing extension point")
    ELSE IF generic.extends.t # "str" THEN PanicResult
    ELSE IF ~StringInSlice(generic.extends.v, extensionPoints)
    THEN ErrorResult(name, "unknown extension point")
    ELSE IF generic.message.t = "absent"
    THEN ErrorResult(name, "missing message")
    ELSE NilResult

\* Manager.updateAllChecks
updateAllChecks(ac, chkDef) ==
    MapPut(ac, chkDef.Name,
           [Extends |-> chkDef.Extends,
            Level |-> LevelToInt(chkDef.Level),
            Scope |-> chkDef.Scope])

\* mapstructure.Decode of the generic map into a rule struct: it fails when a
\* string field holds a non-string, or when the kind's own keys do not decode
DecodeOk(generic) ==
    /\ generic.level.t = "str"
    /\ generic.scope.t = "str"
    /\ generic.body # "bad"

\* the Definition embedded in the decoded rule struct
Decoded(generic) ==
    [Name |-> generic.name,
     Extends |-> generic.extends.v,
     Level |-> generic.level.v,
     Scope |-> generic.scope.v]

\* addExistenceCheck and the other builders that register the rule under its
\* own name and scope once its pattern compiles
addPlainCheck(ac, generic) ==
    IF DecodeOk(generic) THEN updateAllChecks(ac, Decoded(generic)) ELSE ac

\* addReadabilityCheck, addSequenceCheck: the scope is forced to summary
addSummaryCheck(ac, generic) ==
    IF DecodeOk(generic)
    THEN updateAllChecks(ac, [Decoded(generic) EXCEPT !.Scope = SummaryScope])
    ELSE ac

\* addConsistencyCheck: one Check per pair, named <rule>.<first option>, whose
\* Extends is the rule's name
RECURSIVE addConsistencyPairs(_, _, _)
addConsistencyPairs(ac, generic, firsts) ==
    IF firsts = <<>> THEN ac
    ELSE addConsistencyPairs(
             updateAllChecks(ac,
                 [Decoded(generic) EXCEPT
                     !.Extends = generic.name,
                     !.Name = generic.name \o <<".">> \o Head(firsts)]),
             generic, Tail(firsts))

addConsistencyCheck(ac, generic) ==
    IF DecodeOk(generic)
    THEN addConsistencyPairs(ac, generic, generic.either)
    ELSE ac

\* checkBuilders[extends](chkName, generic, mgr): the registry after the call,
\* and whether the builder panicked (the sequence builder asserts that
\* generic["tokens"] is a list before it decodes anything)
Builder(ac, generic) ==
    LET kind == generic.extends.v
    IN  IF kind = <<"sequence">>
        THEN IF generic.body = "notokens"
             THEN [ac |-> ac, panic |-> TRUE]
             ELSE [ac |-> addSummaryCheck(ac, generic), panic |-> FALSE]
        ELSE IF kind = <<"readability">>
        THEN [ac |-> addSummaryCheck(ac, generic), panic |-> FALSE]
        ELSE IF kind = <<"consistency">>
        THEN [ac |-> addConsistencyCheck(ac, generic), panic |-> FALSE]
        ELSE [ac |-> addPlainCheck(ac, generic), panic |-> FALSE]

WithDefaultsManifestFirst(generic, chkName, levels) ==
    [generic EXCEPT
        !.name = chkName,
        !.level = IF generic.level.t # "absent" THEN generic.level
                  ELSE IF chkName \in DOMAIN levels THEN Str(levels[chkName])
                  ELSE Str(<<"warning">>),
        !.scope = IF generic.scope.t = "absent" THEN Str(TextScope)
                  ELSE generic.scope]

\* Manager.addCheck, "Set default values, if necessary"
WithDefaults(generic, chkName, levels) ==
    [generic EXCEPT
        !.name = chkName,
        !.level = IF chkName \in DOMAIN levels THEN Str(levels[chkName])
                  ELSE IF generic.level.t = "absent" THEN Str(<<"warning">>)
                  ELSE generic.level,
        !.scope = IF generic.scope.t = "absent" THEN Str(TextScope)
                  ELSE generic.scope]

\* Manager.addCheck: the registry, the scopes and the returned error after the
\* call; generic["scope"].(string) panics when the scope is not a string
addCheck(ac, sc, levels, yamlOk, manifest, chkName) ==
    IF ~yamlOk
    THEN [ac |-> ac, sc |-> sc, res |-> ErrorResult(chkName, "yaml")]
    ELSE LET defErr == validateDefinition(manifest, chkName)
         IN  IF defErr.kind # "nil"
             THEN [ac |-> ac, sc |-> sc, res |-> defErr]
             ELSE LET generic == WithDefaults(manifest, chkName, levels)
                      built == Builder(ac, generic)
                  IN  IF built.panic
                      THEN [ac |-> ac, sc |-> sc, res |-> PanicResult]
                      ELSE IF generic.scope.t # "str"
                      THEN [ac |-> built.ac, sc |-> sc, res |-> PanicResult]
                      ELSE [ac |-> built.ac,
                            sc |-> sc \cup {Sections(generic.scope.v)[1]},
                            res |-> NilResult]

\* the check name loadCheck derives from the style directory and the file name
CheckNameOf(fName) == StyleName \o <<".">> \o Sections(fName)[1]

\* Manager.loadCheck
loadCheck(ac, sc, levels, entry) ==
    IF HasSuffix(entry.fName, YmlSuffix)
    THEN IF entry.readErr
         THEN [ac |-> ac, sc |-> sc, res |-> ErrorResult(<<>>, "read")]
         ELSE IF CheckNameOf(entry.fName) \notin DOMAIN ac
         THEN addCheck(ac, sc, levels, entry.yamlOk, entry.m,
                       CheckNameOf(entry.fName))
         ELSE [ac |-> ac, sc |-> sc, res |-> NilResult]
    ELSE [ac |-> ac, sc |-> sc, res |-> NilResult]

\* a decoded manifest: the keys addCheck reads, what the kind's builder makes of
\* the kind's own keys (body), and the first options of a consistency rule
Manifest(e, msg, lv, sp, b) ==
    [name |-> <<>>, extends |-> e, message |-> msg, level |-> lv, scope |-> sp,
     body |-> b,
     either |-> IF e = Str(<<"consistency">>) THEN << <<"x">> >> ELSE <<>>]

ModelledKinds == {Str(<<"existence">>), Str(<<"consistency">>), Str(<<"sequence">>)}

\* the decoded manifests of the modelled style directories: manifests without
\* a usable extension point or without a message, manifests of three of the
\* ten kinds with every combination of level and scope, and manifests whose
\* scope is not a string or whose own keys the builder cannot use
WellFormedManifests ==
    {Manifest(e, msg, Absent, Absent, "ok") :
        e \in {Absent, IntVal, Str(<<"bogus">>)}, msg \in {Absent, Str(<<"m">>)}}
    \cup {Manifest(e, Absent, Absent, Absent, "ok") : e \in ModelledKinds}
    \cup {Manifest(e, Str(<<"m">>), lv, sp, "ok") :
            e \in ModelledKinds,
            lv \in {Absent, Str(<<"error">>)},
            sp \in {Absent, Str(HeadingScope)}}
    \cup {Manifest(e, Str(<<"m">>), Absent, IntVal, "ok") : e \in ModelledKinds}
    \cup {Manifest(e, Str(<<"m">>), Absent, Absent, "bad") : e \in ModelledKinds}
    \cup {Manifest(Str(<<"sequence">>), Str(<<"m">>), Absent, Absent, "notokens")}

BlankManifest ==
    [name |-> <<>>, extends |-> Absent, message |-> Absent, level |-> Absent,
     scope |-> Absent, body |-> "ok", either |-> <<>>]

FileLetters == <<"A", "B", "C", "D">>
YmlName(k) == <<FileLetters[k]>> \o YmlSuffix
TxtName(k) == <<FileLetters[k], ".", "t", "x", "t">>

\* the k-th entry of the directory can be any of these
EntriesAt(k) ==
    {[fName |-> YmlName(k), isDir |-> FALSE, readErr |-> FALSE, yamlOk |-> TRUE, m |-> m] :
        m \in WellFormedManifests}
    \cup {[fName |-> YmlName(k), isDir |-> FALSE, readErr |-> FALSE, yamlOk |-> FALSE,
           m |-> BlankManifest],
          [fName |-> YmlName(k), isDir |-> FALSE, readErr |-> TRUE, yamlOk |-> TRUE,
           m |-> BlankManifest],
          [fName |-> YmlName(k), isDir |-> TRUE, readErr |-> FALSE, yamlOk |-> TRUE,
           m |-> BlankManifest],
          [fName |-> TxtName(k), isDir |-> FALSE, readErr |-> FALSE, yamlOk |-> TRUE,
           m |-> BlankManifest]}

\* what kind of entry a directory entry is, from its content alone
KindOf(entry) ==
    IF entry.isDir \/ entry.readErr \/ ~HasSuffix(entry.fName, YmlSuffix)
    THEN "skipped"
    ELSE IF ~entry.yamlOk \/ entry.m.extends.t = "absent" THEN "rejected"
    ELSE IF entry.m.extends.t # "str" THEN "panics"
    ELSE IF \/ ~StringInSlice(entry.m.extends.v, extensionPoints)
            \/ entry.m.message.t = "absent"
    THEN "rejected"
    ELSE IF entry.m.body = "notokens" \/ entry.m.scope.t = "int" THEN "panics"
    ELSE IF entry.m.body = "bad" THEN "unbuilt"
    ELSE "valid"

EntryKinds == {"skipped", "rejected", "panics", "unbuilt", "valid"}

NoCall == [name |-> <<>>, entry |-> [fName |-> <<>>, isDir |-> FALSE, readErr |-> FALSE,
                                     yamlOk |-> TRUE, m |-> BlankManifest],
           before |-> <<>>, beforeScopes |-> {}, res |-> NoResult]

\* a rule registered by an earlier walk of a directory of the same style
EarlierCheck == [Extends |-> <<"existence">>, Level |-> 1, Scope |-> TextScope]

ManagerInit ==
    /\ AllChecks \in {<<>>, (CheckNameOf(YmlName(1)) :> EarlierCheck)}
    /\ Scopes = IF AllChecks = <<>> THEN {} ELSE {<<"text">>}
    /\ RuleToLevel \in {<<>>, (CheckNameOf(YmlName(1)) :> <<"suggestion">>)}
    /\ dirKinds \in [1..MaxFiles -> EntryKinds]
    /\ pos = 0
    /\ crashed = FALSE
    /\ call = NoCall
    /\ made = FALSE

ManagerIdleInit ==
    /\ AllChecks = <<>>
    /\ Scopes = {}
    /\ RuleToLevel = <<>>
    /\ dirKinds = <<>>
    /\ pos = 0
    /\ crashed = FALSE
    /\ call = NoCall
    /\ made = FALSE

ManagerIdle ==
    UNCHANGED <<AllChecks, Scopes, RuleToLevel, dirKinds, pos, crashed, call, made>>

\* the callback Manager.loadExternalStyle hands to Walk, run on the next entry
\* of the directory: directories are passed over, every other file goes to
\* loadCheck, whose error is printed and dropped
WalkEntry ==
    /\ ~crashed
    /\ pos < MaxFiles
    /\ \E entry \in EntriesAt(pos + 1) :
        /\ KindOf(entry) = dirKinds[pos + 1]
        /\ LET out == IF entry.isDir
                      THEN [ac |-> AllChecks, sc |-> Scopes, res |-> NilResult]
                      ELSE loadCheck(AllChecks, Scopes, RuleToLevel, entry)
           IN  /\ AllChecks' = out.ac
               /\ Scopes' = out.sc
               /\ crashed' = (out.res.kind = "panic")
               /\ call' = [name |-> CheckNameOf(entry.fName), entry |-> entry,
                           before |-> AllChecks, beforeScopes |-> Scopes,
                           res |-> out.res]
        /\ pos' = pos + 1
        /\ UNCHANGED <<RuleToLevel, dirKinds, made>>

(***************************************************************************)
(* Claims about the Manager                                                *)
(***************************************************************************)
\* the last call reached addCheck with a manifest that YAML could decode
AddCheckRan ==
    /\ call.res.kind # "none"
    /\ ~call.entry.isDir
    /\ ~call.entry.readErr
    /\ HasSuffix(call.entry.fName, YmlSuffix)
    /\ call.entry.yamlOk
    /\ call.name \notin DOMAIN call.before

\* the manifest has no `extends`, or a value that is not one of the ten
\* extension points, whatever its YAML type
ExtendsUnusable(m) ==
    \/ m.extends.t # "str"
    \/ ~StringInSlice(m.extends.v, extensionPoints)

\* C5: for a decoded manifest without `extends`, with an `extends` that is not
\* one of the ten extension points (of any YAML type) or without `message`,
\* addCheck returns an error naming the manifest and never panics; a missing or
\* unknown `extends` is reported before a missing `message`.
C5_InvalidManifestIsAnErrorNamingIt ==
    (AddCheckRan /\ (ExtendsUnusable(call.entry.m) \/ call.entry.m.message.t = "absent"))
        => /\ call.res.kind = "error"
           /\ call.res.name = call.name
           /\ ExtendsUnusable(call.entry.m)
                => call.res.msg \in {"missing extension point", "unknown extension point"}

\* the names the Manager holds for the rule of a manifest
Registered(name) ==
    \E key \in DOMAIN AllChecks : key = name \/ HasPrefix(key, name \o <<".">>)

WalkEnded == pos = MaxFiles \/ crashed

\* C6: a manifest that addCheck rejects leaves AllChecks and Scopes as they
\* were, and once the walk of a directory holding a rejected manifest has
\* ended, every valid manifest of that directory is registered.
C6_RejectionLeavesTheOthersLoaded ==
    /\ call.res.kind = "error"
        => (AllChecks = call.before /\ Scopes = call.beforeScopes)
    /\ (WalkEnded /\ \E k \in 1..pos : dirKinds[k] = "rejected")
        => \A k \in 1..MaxFiles :
               dirKinds[k] = "valid" => Registered(CheckNameOf(YmlName(k)))

\* the Checks the last call added
NewKeys == DOMAIN AllChecks \ DOMAIN call.before

ExpectedLevel ==
    IF call.name \in DOMAIN RuleToLevel THEN RuleToLevel[call.name]
    ELSE IF call.entry.m.level.t = "absent" THEN <<"warning">>
    ELSE call.entry.m.level.v

ValidCall == AddCheckRan /\ KindOf(call.entry) = "valid"

SummaryKinds == {<<"readability">>, <<"sequence">>}

\* C7 as stated: a valid manifest is registered with level warning when it has
\* no level, with the level Config.RuleToLevel gives its name when there is
\* one, and with scope text when it has no scope.
C7_DefaultsLevelWarningScopeText ==
    ValidCall =>
        /\ NewKeys # {}
        /\ \A key \in NewKeys :
            /\ AllChecks[key].Level = LevelToInt(ExpectedLevel)
            /\ call.entry.m.scope.t = "absent" => AllChecks[key].Scope = TextScope

\* C7 amended: as stated for the level; the scope of a manifest without scope
\* is text, except for readability and sequence rules, which are always
\* registered with scope summary.
C7_DefaultsExceptSummaryKinds ==
    ValidCall =>
        /\ NewKeys # {}
        /\ \A key \in NewKeys :
            /\ AllChecks[key].Level = LevelToInt(ExpectedLevel)
            /\ (call.entry.m.scope.t = "absent"
                    /\ call.entry.m.extends.v \notin SummaryKinds)
                => AllChecks[key].Scope = TextScope
            /\ call.entry.m.extends.v \in SummaryKinds
                => AllChecks[key].Scope = SummaryScope

\* a sequence manifest without scope whose own level is replaced by the
\* configured one
C7_Witness ==
    /\ ValidCall
    /\ call.entry.m.extends.v = <<"sequence">>
    /\ call.entry.m.scope.t = "absent"
    /\ call.entry.m.level = Str(<<"error">>)
    /\ call.name \in DOMAIN RuleToLevel
    /\ AllChecks[call.name].Level = 0
    /\ AllChecks[call.name].Scope = SummaryScope

(***************************************************************************)
(* core.File: locating and recording alerts                                *)
(***************************************************************************)
\* strings.SplitAfter(s, "\n"): the lines of s, each with its newline
RECURSIVE SplitAfterNewline(_)
SplitAfterNewline(s) ==
    LET i == Index(s, <<"\n">>)
    IN  IF i < 0 THEN <<s>>
        ELSE <<SubSeq(s, 1, i + 1)>> \o SplitAfterNewline(SubSeq(s, i + 2, Len(s)))

\* strconv.Itoa of a digit
DigitString(d) == <<"0", "1", "2", "3", "4", "5", "6", "7", "8", "9">>[d + 1]

RECURSIVE ItoaNat(_)
ItoaNat(n) ==
    IF n < 10 THEN <<DigitString(n)>>
    ELSE ItoaNat(n \div 10) \o <<DigitString(n % 10)>>

\* strconv.Itoa
Itoa(n) == IF n < 0 THEN <<"-">> \o ItoaNat(-n) ELSE ItoaNat(n)

\* strings.Join(parts, sep)
RECURSIVE Join(_, _)
Join(parts, sep) ==
    IF parts = <<>> THEN <<>>
    ELSE IF Len(parts) = 1 THEN parts[1]
    ELSE parts[1] \o sep \o Join(Tail(parts), sep)

\* core.Substitute(src, sub, '#'): the first occurrence of sub in src with every
\* character but the newline replaced by '#'
Substitute(src, sub) ==
    LET idx == Index(src, sub)
    IN  IF idx < 0 THEN src
        ELSE [k \in 1..Len(src) |->
                 IF k > idx /\ k <= idx + Len(sub) /\ src[k] # "\n"
                 THEN "#" ELSE src[k]]

\* core.initialPosition(ctx, m, f.matcher): the 1-based rune position of m in
\* ctx with the substring found there.  When m is not in ctx the closest-match
\* index of the file's lines proposes one of them; the lookup fails (-1) when
\* that line is not in ctx either.  The outcomes the call can have:
InitialPositions(ctx, m, lines) ==
    IF Index(ctx, m) >= 0
    THEN {[pos |-> Index(ctx, m) + 1, substring |-> m]}
    ELSE {[pos |-> -1, substring |-> m]}
         \cup {[pos |-> Index(ctx, lines[k]) + 1, substring |-> lines[k]] :
                 k \in {j \in 1..Len(lines) :
                           lines[j] # <<>> /\ Index(ctx, lines[j]) >= 0}}

\* the loop of File.FindLoc over the lines, from line idx with counter runes
\* before it
RECURSIVE FindLocLoop(_, _, _, _, _, _, _, _)
FindLocLoop(lines, idx, counter, at, substring, pad, count, loc) ==
    IF idx > Len(lines) THEN [Line |-> count, Span |-> loc]
    ELSE LET length == Len(lines[idx])
         IN  IF counter + length >= at
             THEN LET loc0 == (at - counter) + pad
                      loc1 == loc0 + Len(substring) - 1
                      extent == length + pad
                  IN  [Line |-> count - (Len(lines) - idx),
                       Span |-> <<loc0, IF loc1 > extent THEN extent ELSE loc1>>]
             ELSE FindLocLoop(lines, idx + 1, counter + length, at, substring,
                              pad, count, loc)

\* File.FindLoc, given the outcome found of initialPosition
FindLoc(cfg, ctx, found, pad, count, loc) ==
    IF found.pos < 0 THEN [Line |-> found.pos, Span |-> <<0, 0>>]
    ELSE FindLocLoop(
             IF cfg.Format = "markup" /\ ~cfg.Simple THEN cfg.Lines
             ELSE SplitAfterNewline(ctx),
             1, 0, found.pos, found.substring, pad, count, loc)

\* the key File.AddAlert records in File.history
HistoryEntry(a) == Join(<<Itoa(a.Line), Itoa(a.Span[1]), a.Check>>, <<"-">>)

RecordAlertUnchecked(alerts, hist, a) ==
    [Alerts |-> Append(alerts, a), history |-> hist \cup {HistoryEntry(a)},
     outcome |-> "appended"]

\* File.AddAlert, "Ensure that we're not double-reporting an Alert"
RecordAlert(alerts, hist, a) ==
    IF HistoryEntry(a) \notin hist
    THEN [Alerts |-> Append(alerts, a), history |-> hist \cup {HistoryEntry(a)},
          outcome |-> "appended"]
    ELSE [Alerts |-> alerts, history |-> hist, outcome |-> "duplicate"]

\* File.AddAlert, the context the call works on: the one kept for the check
ContextFor(c2c, a, ctx0) == IF a.Check \in DOMAIN c2c THEN c2c[a.Check] ELSE ctx0

\* AddAlert that masks the match in the kept context before it looks at the span
AddAlertWithEagerContext(alerts, hist, c2c, cfg, a, ctx0, found, count, pad) ==
    LET ctx == ContextFor(c2c, a, ctx0)
        at == FindLoc(cfg, ctx, found, pad, count, a.Span)
        located == [a EXCEPT !.Line = at.Line, !.Span = at.Span]
        c2c1 == MapPut(c2c, a.Check, Substitute(ctx, a.Match))
    IN  IF located.Span[1] > 0
        THEN IF ~a.Hide
             THEN LET rec == RecordAlert(alerts, hist, located)
                  IN  [Alerts |-> rec.Alerts, history |-> rec.history,
                       ChkToCtx |-> c2c1, outcome |-> rec.outcome,
                       located |-> located]
             ELSE [Alerts |-> alerts, history |-> hist, ChkToCtx |-> c2c1,
                   outcome |-> "hidden", located |-> located]
        ELSE [Alerts |-> alerts, history |-> hist, ChkToCtx |-> c2c1,
              outcome |-> "dropped", located |-> located]

\* AddAlert that keeps a hidden alert out of File.Alerts but records its key
AddAlertWithHiddenRecorded(alerts, hist, c2c, cfg, a, ctx0, found, count, pad) ==
    LET ctx == ContextFor(c2c, a, ctx0)
        at == FindLoc(cfg, ctx, found, pad, count, a.Span)
        located == [a EXCEPT !.Line = at.Line, !.Span = at.Span]
    IN  IF located.Span[1] > 0
        THEN LET c2c1 == MapPut(c2c, a.Check, Substitute(ctx, a.Match))
                 rec == RecordAlert(alerts, hist, located)
             IN  IF ~a.Hide
                 THEN [Alerts |-> rec.Alerts, history |-> rec.history,
                       ChkToCtx |-> c2c1, outcome |-> rec.outcome,
                       located |-> located]
                 ELSE [Alerts |-> alerts, history |-> rec.history, ChkToCtx |-> c2c1,
                       outcome |-> "hidden", located |-> located]
        ELSE [Alerts |-> alerts, history |-> hist, ChkToCtx |-> c2c,
              outcome |-> "dropped", located |-> located]

\* File.AddAlert, given the outcome found of initialPosition: the File's
\* fields after the call
AddAlertWith(alerts, hist, c2c, cfg, a, ctx0, found, count, pad) ==
    LET ctx == ContextFor(c2c, a, ctx0)
        at == FindLoc(cfg, ctx, found, pad, count, a.Span)
        located == [a EXCEPT !.Line = at.Line, !.Span = at.Span]
    IN  IF located.Span[1] > 0
        THEN LET c2c1 == MapPut(c2c, a.Check, Substitute(ctx, a.Match))
             IN  IF ~a.Hide
                 THEN LET rec == RecordAlert(alerts, hist, located)
                      IN  [Alerts |-> rec.Alerts, history |-> rec.history,
                           ChkToCtx |-> c2c1, outcome |-> rec.outcome,
                           located |-> located]
                 ELSE [Alerts |-> alerts, history |-> hist, ChkToCtx |-> c2c1,
                       outcome |-> "hidden", located |-> located]
        ELSE [Alerts |-> alerts, history |-> hist, ChkToCtx |-> c2c,
              outcome |-> "dropped", located |-> located]

AlertChecks == {<<"S", ".", "R">>, <<"1", "-", "S", ".", "R">>}
\* the blocks of text the linter hands over: a context with the line count
\* and the padding of its place in the file
AlertBlocks ==
    {[ctx |-> <<"a", "b">>, lines |-> 1, pad |-> 0],
     [ctx |-> <<"a", "\n", "a", "b">>, lines |-> 2, pad |-> 0],
     [ctx |-> <<"b", "a", "\n">>, lines |-> 2, pad |-> 1]}
AlertMatches == {<<"a">>, <<"a", "b">>, <<"c">>}
FileContents == {<<"a", "b">>, <<"b", "a", "\n", "a", "b">>}

\* the alerts a rule can hand to AddAlert: scope-local span, no line yet
RuleAlerts ==
    {[Check |-> c, Line |-> 0, Span |-> <<b, b + Len(mt)>>, Match |-> mt, Hide |-> h] :
        c \in AlertChecks, b \in {0, 1}, mt \in AlertMatches, h \in BOOLEAN}

NoAdd == [outcome |-> "none", entry |-> <<>>]

FileInit ==
    /\ Alerts = <<>>
    /\ history = {}
    /\ ChkToCtx = <<>>
    /\ fileCfg \in {[Format |-> f, Simple |-> sm, Lines |-> SplitAfterNewline(c)] :
                       f \in {"prose", "markup"}, sm \in BOOLEAN, c \in FileContents}
    /\ fileCfg.Simple => fileCfg.Format = "markup" /\ Len(fileCfg.Lines) = 1
    /\ fileCfg.Format = "prose" => Len(fileCfg.Lines) = 1
    /\ lastAdd = NoAdd
    /\ nAdds = 0

FileIdleInit ==
    /\ Alerts = <<>>
    /\ history = {}
    /\ ChkToCtx = <<>>
    /\ fileCfg = [Format |-> "prose", Simple |-> FALSE, Lines |-> <<>>]
    /\ lastAdd = NoAdd
    /\ nAdds = 0

FileIdle == UNCHANGED <<Alerts, history, ChkToCtx, fileCfg, lastAdd, nAdds>>

AddAlert ==
    /\ nAdds < MaxAdds
    /\ \E a \in RuleAlerts, blk \in AlertBlocks :
        \E found \in InitialPositions(ContextFor(ChkToCtx, a, blk.ctx), a.Match,
                                      fileCfg.Lines) :
            LET out == AddAlertWith(Alerts, history, ChkToCtx, fileCfg, a, blk.ctx,
                                    found, blk.lines, blk.pad)
            IN  /\ Alerts' = out.Alerts
                /\ history' = out.history
                /\ ChkToCtx' = out.ChkToCtx
                /\ lastAdd' = [outcome |-> out.outcome,
                               entry |-> IF out.outcome = "duplicate"
                                         THEN HistoryEntry(out.located) ELSE <<>>]
    /\ nAdds' = nAdds + 1
    /\ UNCHANGED fileCfg

\* the linter starts a new block of text: the contexts kept per check are
\* those of the block
NewBlock ==
    /\ ChkToCtx # <<>>
    /\ ChkToCtx' = <<>>
    /\ UNCHANGED <<Alerts, history, fileCfg, lastAdd, nAdds>>

(***************************************************************************)
(* Claims about File.AddAlert                                              *)
(***************************************************************************)
\* C1: no two alerts of File.Alerts share the triple (Line, Span[0], Check).
C1_NoTwoAlertsShareLineSpanCheck ==
    \A i, j \in 1..Len(Alerts) :
        (/\ Alerts[i].Line = Alerts[j].Line
         /\ Alerts[i].Span[1] = Alerts[j].Span[1]
         /\ Alerts[i].Check = Alerts[j].Check) => i = j

\* an alert whose triple is already held by an alert of the file was not added
C1_Witness ==
    /\ lastAdd.outcome = "duplicate"
    /\ \E i \in 1..Len(Alerts) : HistoryEntry(Alerts[i]) = lastAdd.entry

\* C21: every alert of File.Alerts has a span with 0 <= Span[0] < Span[1],
\* whatever the length of the match and of the line
C21_SpanStartsBeforeItEnds ==
    \A i \in 1..Len(Alerts) :
        0 <= Alerts[i].Span[1] /\ Alerts[i].Span[1] < Alerts[i].Span[2]

\* the calls of AddAlert the file can get in this state for the alerts as
AddAlertCallsFor(as) ==
    UNION {{[a |-> a, blk |-> blk, found |-> found] :
               found \in InitialPositions(ContextFor(ChkToCtx, a, blk.ctx), a.Match,
                                          fileCfg.Lines)} :
           <<a, blk>> \in as \X AlertBlocks}

AddAlertCalls == AddAlertCallsFor(RuleAlerts)

\* what the call c makes of the file
AddAlertResult(c) ==
    AddAlertWith(Alerts, history, ChkToCtx, fileCfg, c.a, c.blk.ctx, c.found,
                 c.blk.lines, c.blk.pad)

\* C22: a call of AddAlert whose match is not located (initialPosition gives a
\* negative position) leaves File.Alerts, the history and the per-check
\* contexts as they were, whatever the file already holds
C22_UnlocatedAlertLeavesFileUnchanged ==
    \A c \in {d \in AddAlertCalls : d.found.pos < 0} :
        \A res \in {AddAlertResult(c)} :
            /\ res.outcome = "dropped"
            /\ res.Alerts = Alerts
            /\ res.history = history
            /\ res.ChkToCtx = ChkToCtx

\* an alert was dropped by a file that already held alerts and contexts
C22_Witness ==
    /\ lastAdd.outcome = "dropped"
    /\ Alerts # <<>>
    /\ ChkToCtx # <<>>

\* the alert a with Hide cleared
Unhidden(a) == [a EXCEPT !.Hide = FALSE]

\* the hidden alerts a rule can hand over
HiddenAlerts == {a \in RuleAlerts : a.Hide}

ToLowerChar(c) == IF c = "A" THEN "a" ELSE c

\* strings.ToLower
ToLower(s) == [k \in 1..Len(s) |-> ToLowerChar(s[k])]

\* the class \s of a Go regular expression
IsSpace(c) == c \in {" ", "\n", "\t"}

\* strings.TrimSpace
RECURSIVE TrimSpace(_)
TrimSpace(s) ==
    IF s = <<>> THEN s
    ELSE IF IsSpace(s[1]) THEN TrimSpace(Tail(s))
    ELSE IF IsSpace(s[Len(s)]) THEN TrimSpace(SubSeq(s, 1, Len(s) - 1))
    ELSE s

\* core.IsLetter: s is made of letters only
IsLetter(s) == s # <<>> /\ \A k \in 1..Len(s) : s[k] \in Letters

\* Go's txt[lo:hi]
Slice(s, lo, hi) == SubSeq(s, lo + 1, hi)

\* the literal lit matches s at the 0-based offset i, case folded under (?i)
LiteralAt(s, lit, ic, i) ==
    /\ i + Len(lit) <= Len(s)
    /\ \A k \in 1..Len(lit) :
          \/ s[i + k] = lit[k]
          \/ ic /\ ToLowerChar(s[i + k]) = ToLowerChar(lit[k])

\* regexp.FindAllStringIndex for the literal lit: the leftmost matches that do
\* not overlap, from the offset from on
RECURSIVE FindAllLiteral(_, _, _, _)
FindAllLiteral(s, lit, ic, from) ==
    IF from + Len(lit) > Len(s) THEN <<>>
    ELSE IF LiteralAt(s, lit, ic, from)
         THEN <<<<from, from + Len(lit)>>>>
              \o FindAllLiteral(s, lit, ic, from + Len(lit))
         ELSE FindAllLiteral(s, lit, ic, from + 1)

\* the end of the run of non-space characters of s that starts at offset i
RECURSIVE RunEnd(_, _)
RunEnd(s, i) == IF i < Len(s) /\ ~IsSpace(s[i + 1]) THEN RunEnd(s, i + 1) ELSE i

\* regexp.FindAllStringIndex for the token [^\s]+: the maximal runs of
\* non-space characters, from the offset from on
RECURSIVE FindAllRuns(_, _)
FindAllRuns(s, from) ==
    IF from >= Len(s) THEN <<>>
    ELSE IF IsSpace(s[from + 1]) THEN FindAllRuns(s, from + 1)
    ELSE <<<<from, RunEnd(s, from)>>>> \o FindAllRuns(s, RunEnd(s, from))

\* core.FormatMessage(msg, subs...): the message with its arguments
FormatMessage(msg, subs) == [msg |-> msg, subs |-> subs]

makeAlert(def, loc, text) ==
    [Check |-> def.Name, Severity |-> def.Level, Span |-> loc,
     Match |-> Slice(text, loc[1], loc[2]),
     Message |-> FormatMessage(def.Message, <<Slice(text, loc[1], loc[2])>>)]

Returned(alerts) == [kind |-> "returned", alerts |-> alerts]
Panicked == [kind |-> "panic", alerts |-> <<>>]
NotRun == [kind |-> "none", alerts |-> <<>>]

\* regexp of addOccurrenceCheck: (?i) when Ignorecase, then (?:token)
OccurrenceLocs(text, def) == FindAllLiteral(text, def.Token, def.Ignorecase, 0)

checkOccurrence(text, def) ==
    LET locs == OccurrenceLocs(text, def)
        occurrences == Len(locs)
    IN  IF occurrences > def.Max \/ occurrences < def.Min
        THEN IF locs = <<>> THEN Panicked   \* locs[0] is out of range
             ELSE Returned(<<[makeAlert(def, locs[1], text) EXCEPT
                                 !.Message = FormatMessage(def.Message, <<>>)]>>)
        ELSE Returned(<<>>)

\* regexp of addRepetitionCheck, for the tokens [^\s]+
RepetitionLocs(text) == FindAllRuns(text, 0)

\* checkRepetition: `hit` for the match curr after the match prev
RepetitionHit(def, curr, prev) ==
    /\ IF def.Ignorecase THEN ToLower(curr) = ToLower(prev) /\ curr # <<>>
       ELSE curr = prev /\ curr # <<>>
    /\ ~def.Alpha \/ IsLetter(curr)

\* the loop of checkRepetition from the i-th match on
RECURSIVE RepetitionLoop(_, _, _, _, _, _, _, _)
RepetitionLoop(text, def, locs, i, prev, ploc, count, alerts) ==
    IF i > Len(locs) THEN alerts
    ELSE LET loc == locs[i]
             curr == TrimSpace(Slice(text, loc[1], loc[2]))
             hit == RepetitionHit(def, curr, prev)
             count1 == IF hit THEN count + 1 ELSE count
             alert == /\ hit
                      /\ count1 > def.Max
                      /\ ~Contains(Slice(text, ploc[1], loc[2]), <<"\n">>)
             a == [makeAlert(def, <<ploc[1], loc[2]>>, text) EXCEPT
                      !.Message = FormatMessage(def.Message, <<curr>>)]
         IN  RepetitionLoop(text, def, locs, i + 1, curr, loc,
                            IF alert THEN 0 ELSE count1,
                            IF alert THEN Append(alerts, a) ELSE alerts)

checkRepetition(text, def) ==
    Returned(RepetitionLoop(text, def, RepetitionLocs(text), 1, <<>>, <<0, 0>>,
                            0, <<>>))

\* scope texts: up to MaxWords one-character words, each two separated by a
\* space or a newline
TextWords == {"a", "A", "1"}
TextSeparators == {" ", "\n"}

RECURSIVE TextsOf(_)
TextsOf(n) ==
    IF n = 0 THEN {<<>>}
    ELSE IF n = 1 THEN {<<w>> : w \in TextWords}
    ELSE {t \o <<sp, w>> : t \in TextsOf(n - 1), sp \in TextSeparators,
                           w \in TextWords}

Texts == UNION {TextsOf(n) : n \in 0..MaxWords}

RuleName == <<"S", ".", "R">>
RuleMessage == <<"m", "%s">>

OccurrenceRules ==
    {[Name |-> RuleName, Level |-> "warning", Message |-> RuleMessage,
      Ignorecase |-> ic, Max |-> mx, Min |-> mn, Token |-> tk] :
        ic \in BOOLEAN, mx \in 0..MaxCount, mn \in 0..MaxCount,
        tk \in {<<"a">>, <<"a", " ", "a">>}}

RepetitionRules ==
    {[Name |-> RuleName, Level |-> "warning", Message |-> RuleMessage,
      Ignorecase |-> ic, Alpha |-> al, Max |-> mx] :
        ic \in BOOLEAN, al \in BOOLEAN, mx \in 0..MaxCount}

\* NewFile: no scope scanned, File.Sequences empty
NoScan ==
    Sequences = <<>> /\ scanned = {} /\ nScans = 0 /\ compiled = <<>> /\ runs = <<>>
ScanIdle == UNCHANGED <<Sequences, scanned, nScans, compiled, runs>>

OccurrenceInit ==
    txt \in Texts /\ chk \in OccurrenceRules /\ ruleRes = NotRun /\ NoScan
RepetitionInit ==
    txt \in Texts /\ chk \in RepetitionRules /\ ruleRes = NotRun /\ NoScan
RuleIdleInit ==
    txt = <<>> /\ chk = [Name |-> RuleName] /\ ruleRes = NotRun /\ NoScan
RuleIdle ==
    UNCHANGED <<txt, chk, ruleRes, Sequences, scanned, nScans, compiled, runs>>

RunOccurrence ==
    /\ ruleRes = NotRun
    /\ ruleRes' = checkOccurrence(txt, chk)
    /\ UNCHANGED <<txt, chk>>
    /\ ScanIdle

RunRepetition ==
    /\ ruleRes = NotRun
    /\ ruleRes' = checkRepetition(txt, chk)
    /\ UNCHANGED <<txt, chk>>
    /\ ScanIdle

(***************************************************************************)
(* Claims about the occurrence and repetition rules                        *)
(***************************************************************************)
\* C8: an occurrence rule returns exactly one alert, spanning the first match,
\* when the number of matches is above max or below min (zero matches with
\* min > 0 included), and returns no alert otherwise.
C8_OneAlertIffCountOutOfRange ==
    ruleRes # NotRun =>
        LET locs == OccurrenceLocs(txt, chk)
        IN  /\ ruleRes.kind = "returned"
            /\ IF Len(locs) > chk.Max \/ Len(locs) < chk.Min
               THEN /\ Len(ruleRes.alerts) = 1
                    /\ Len(locs) > 0 => ruleRes.alerts[1].Span = locs[1]
               ELSE ruleRes.alerts = <<>>

\* the i-th match of the repetition rule's tokens in txt, as checkRepetition
\* compares it
RepetitionToken(i) ==
    TrimSpace(Slice(txt, RepetitionLocs(txt)[i][1], RepetitionLocs(txt)[i][2]))

\* the i-th match repeats the one before it
Repeats(i) ==
    i >= 2 /\ RepetitionHit(chk, RepetitionToken(i), RepetitionToken(i - 1))

\* the text from the start of match i-1 to the end of match i
PairText(i) ==
    Slice(txt, RepetitionLocs(txt)[i - 1][1], RepetitionLocs(txt)[i][2])

\* the matches at which the rule raised an alert
AlertedAt ==
    {i \in 2..Len(RepetitionLocs(txt)) :
        \E k \in 1..Len(ruleRes.alerts) :
            ruleRes.alerts[k].Span =
                <<RepetitionLocs(txt)[i - 1][1], RepetitionLocs(txt)[i][2]>>}

\* C9: a repetition rule with max = k alerts only where one token is repeated
\* more than k times in a row: the k+1 matches up to the alert each repeat
\* their predecessor, so pairs of an earlier run do not count.
C9_AlertOnlyAfterMoreThanMaxInARow ==
    ruleRes # NotRun =>
        /\ Cardinality(AlertedAt) = Len(ruleRes.alerts)
        /\ \A i \in AlertedAt :
              /\ i - chk.Max >= 2
              /\ \A j \in (i - chk.Max)..i : Repeats(j)

\* C10: a repeated pair whose text spans a newline raises no alert and does
\* not count toward max: more than max pairs free of a newline precede each
\* alert since the alert before it.
C10_NewlinePairsDoNotCount ==
    ruleRes # NotRun =>
        \A i \in AlertedAt :
            /\ ~Contains(PairText(i), <<"\n">>)
            /\ LET since == {p \in AlertedAt : p < i}
                   from == IF since = {} THEN 2
                           ELSE 1 + CHOOSE p \in since : \A q \in since : q <= p
               IN  Cardinality({j \in from..i :
                                   Repeats(j) /\ ~Contains(PairText(j), <<"\n">>)})
                       > chk.Max

(***************************************************************************)
(* Go regular expressions, as far as the rules' patterns use them          *)
(***************************************************************************)
\* strings.Split(s, "|"): the alternatives of a group
RECURSIVE SplitBar(_)
SplitBar(s) ==
    LET i == Index(s, <<"|">>)
    IN  IF i < 0 THEN <<s>>
        ELSE <<SubSeq(s, 1, i)>> \o SplitBar(SubSeq(s, i + 2, Len(s)))

\* A pattern is a run of atoms: a character, an escaped parenthesis \( or \),
\* a capturing group (l1|l2) or a non-capturing group (?:l1|l2) of literals,
\* each optional when followed by ?.  regexp/syntax.Parse of such a pattern:
RECURSIVE ParseAtoms(_)
ParseAtoms(p) ==
    IF p = <<>> THEN <<>>
    ELSE LET close == Index(p, <<")">>)
             atom ==
                 IF HasPrefix(p, <<"\\", "(">>) \/ HasPrefix(p, <<"\\", ")">>)
                 THEN [choices |-> <<<<p[2]>>>>, cap |-> FALSE, len |-> 2]
                 ELSE IF HasPrefix(p, <<"(", "?", ":">>) /\ close >= 0
                 THEN [choices |-> SplitBar(SubSeq(p, 4, close)), cap |-> FALSE,
                       len |-> close + 1]
                 ELSE IF p[1] = "(" /\ close >= 0
                 THEN [choices |-> SplitBar(SubSeq(p, 2, close)), cap |-> TRUE,
                       len |-> close + 1]
                 ELSE [choices |-> <<<<p[1]>>>>, cap |-> FALSE, len |-> 1]
             opt == Len(p) > atom.len /\ p[atom.len + 1] = "?"
             used == IF opt THEN atom.len + 1 ELSE atom.len
         IN  <<[choices |-> atom.choices, cap |-> atom.cap, opt |-> opt]>>
             \o ParseAtoms(SubSeq(p, used + 1, Len(p)))

\* the number of capturing groups of a parsed pattern
RECURSIVE NumCap(_)
NumCap(atoms) ==
    IF atoms = <<>> THEN 0
    ELSE (IF atoms[1].cap THEN 1 ELSE 0) + NumCap(Tail(atoms))

\* the scan of regexp.Compile over what is left of a pattern: depth groups are
\* open, atom says whether a ? can follow
RECURSIVE CompilesFrom(_, _, _)
CompilesFrom(p, depth, atom) ==
    IF p = <<>> THEN depth = 0
    ELSE IF p[1] = "\\"
         THEN Len(p) >= 2 /\ CompilesFrom(SubSeq(p, 3, Len(p)), depth, TRUE)
    ELSE IF p[1] = "("
         THEN IF HasPrefix(p, <<"(", "?", ":">>)
              THEN CompilesFrom(SubSeq(p, 4, Len(p)), depth + 1, FALSE)
              ELSE CompilesFrom(Tail(p), depth + 1, FALSE)
    ELSE IF p[1] = ")" THEN depth > 0 /\ CompilesFrom(Tail(p), depth - 1, TRUE)
    ELSE IF p[1] = "?" THEN atom /\ CompilesFrom(Tail(p), depth, FALSE)
    ELSE IF p[1] = "|" THEN CompilesFrom(Tail(p), depth, FALSE)
    ELSE CompilesFrom(Tail(p), depth, TRUE)

\* regexp.Compile accepts the pattern: every group is closed, no parenthesis
\* closes without a group, no ? stands where an atom has to, no \ ends it
Compiles(p) == CompilesFrom(p, 0, FALSE)

NoSpan == <<-1, -1>>

\* the ways the atoms from the i-th on match text at offset p, in the order
\* the backtracking matcher prefers them (the alternatives of a group from
\* left to right, then the optional atom left out): the end of the match and
\* the spans of the capturing groups
RECURSIVE MatchAtoms(_, _, _, _, _)
RECURSIVE MatchChoices(_, _, _, _, _, _)
MatchChoices(atoms, i, text, ic, p, c) ==
    IF c > Len(atoms[i].choices) THEN <<>>
    ELSE LET lit == atoms[i].choices[c]
             rest == IF LiteralAt(text, lit, ic, p)
                     THEN MatchAtoms(atoms, i + 1, text, ic, p + Len(lit))
                     ELSE <<>>
         IN  [k \in 1..Len(rest) |->
                 [end |-> rest[k].end,
                  caps |-> (IF atoms[i].cap THEN <<<<p, p + Len(lit)>>>> ELSE <<>>)
                           \o rest[k].caps]]
             \o MatchChoices(atoms, i, text, ic, p, c + 1)

MatchAtoms(atoms, i, text, ic, p) ==
    IF i > Len(atoms) THEN <<[end |-> p, caps |-> <<>>]>>
    ELSE LET without == IF atoms[i].opt
                        THEN MatchAtoms(atoms, i + 1, text, ic, p)
                        ELSE <<>>
         IN  MatchChoices(atoms, i, text, ic, p, 1)
             \o [k \in 1..Len(without) |->
                 [end |-> without[k].end,
                  caps |-> (IF atoms[i].cap THEN <<NoSpan>> ELSE <<>>)
                           \o without[k].caps]]

\* \b at offset p of text
WordBoundary(text, p) ==
    (p > 0 /\ WordChar(text[p])) # (p < Len(text) /\ WordChar(text[p + 1]))

\* the spans no group of the alternatives from the j-th to the k-th took
RECURSIVE Unmatched(_, _, _)
Unmatched(re, j, k) ==
    IF j > k THEN <<>>
    ELSE (IF re.wrap THEN <<NoSpan>> ELSE <<>>)
         \o [n \in 1..NumCap(re.alts[j]) |-> NoSpan]
         \o Unmatched(re, j + 1, k)

\* the matches at offset p of the compiled alternation a1|a2|... (each
\* alternative in a group of its own when re.wrap) inside the word or non-word
\* template, in the order of preference: the overall span followed by the span
\* of every group
RECURSIVE MatchAlternatives(_, _, _, _)
MatchAlternatives(re, j, text, p) ==
    IF j > Len(re.alts) THEN <<>>
    ELSE LET found == MatchAtoms(re.alts[j], 1, text, re.ic, p)
             kept == SelectSeq(found,
                         LAMBDA f : ~re.word \/ WordBoundary(text, f.end))
         IN  [k \in 1..Len(kept) |->
                 <<<<p, kept[k].end>>>>
                 \o Unmatched(re, 1, j - 1)
                 \o (IF re.wrap THEN <<<<p, kept[k].end>>>> ELSE <<>>)
                 \o kept[k].caps
                 \o Unmatched(re, j + 1, Len(re.alts))]
             \o MatchAlternatives(re, j + 1, text, p)

\* regexp.FindAllStringSubmatchIndex: the leftmost matches, each the first in
\* the order of preference; an empty match right after a match is left out
RECURSIVE FindAllSubmatch(_, _, _, _)
FindAllSubmatch(re, text, p, prevEnd) ==
    IF p > Len(text) THEN <<>>
    ELSE LET found == IF re.word /\ ~WordBoundary(text, p) THEN <<>>
                      ELSE MatchAlternatives(re, 1, text, p)
         IN  IF found = <<>> THEN FindAllSubmatch(re, text, p + 1, prevEnd)
             ELSE LET mt == found[1]
                      end == mt[1][2]
                  IN  IF end = p
                      THEN (IF p = prevEnd THEN <<>> ELSE <<mt>>)
                           \o FindAllSubmatch(re, text, p + 1, end)
                      ELSE <<mt>> \o FindAllSubmatch(re, text, end, end)

FindAllStringSubmatchIndex(re, text) == FindAllSubmatch(re, text, 0, -1)

\* regexp.FindAllStringIndex
FindAllStringIndex(re, text) ==
    [k \in 1..Len(FindAllStringSubmatchIndex(re, text)) |->
        FindAllStringSubmatchIndex(re, text)[k][1]]

\* Regexp.SubexpNames but for the whole match: the names the outer groups
\* were given, the empty name for every other group
RECURSIVE SubexpNames(_, _, _)
SubexpNames(alts, names, j) ==
    IF j > Len(alts) THEN <<>>
    ELSE <<names[j]>> \o [n \in 1..NumCap(alts[j]) |-> <<>>]
         \o SubexpNames(alts, names, j + 1)

(***************************************************************************)
(* check: the consistency rule                                             *)
(***************************************************************************)
\* Manager.addConsistencyCheck for the pair v1: v2, the count-th and
\* (count+1)-th option of the rule chkName
compileConsistency(def, chkName, v1, v2, count) ==
    [re |-> [alts |-> <<ParseAtoms(v1), ParseAtoms(v2)>>,
             ic |-> def.Ignorecase, word |-> ~def.Nonword, wrap |-> TRUE],
     subs |-> <<SplitDot(chkName)[2] \o Itoa(count),
                SplitDot(chkName)[2] \o Itoa(count + 1)>>,
     def |-> [def EXCEPT !.Extends = chkName,
                         !.Name = chkName \o <<".">> \o v1]]

\* the groups that took part in the matches, in the order checkConsistency
\* and checkSubstitution walk them: the group's number and its span
RECURSIVE GroupHits(_)
GroupHits(matches) ==
    IF matches = <<>> THEN <<>>
    ELSE LET groups == Tail(matches[1])
             taken == SelectSeq([g \in 1..Len(groups) |->
                                    [g |-> g, span |-> groups[g]]],
                                LAMBDA h : h.span[1] # -1)
         IN  taken \o GroupHits(Tail(matches))

\* checkConsistency looking only at the names of the scope at hand
checkConsistencyScopeOnly(text, c, seqs) ==
    LET matches == FindAllStringSubmatchIndex(c.re, text)
        names == SubexpNames(c.re.alts, c.subs, 1)
        hits == GroupHits(matches)
        here == [k \in 1..Len(hits) |-> names[hits[k].g]]
    IN  [seqs |-> seqs \o here,
         res |-> IF matches # <<>> /\ AllStringsInSlice(c.subs, here)
                 THEN Returned(<<makeAlert([c.def EXCEPT !.Name = c.def.Extends],
                                           hits[Len(hits)].span, text)>>)
                 ELSE Returned(<<>>)]

\* checkConsistency on the rule c compiled for one pair: its result and
\* File.Sequences after the call
checkConsistency(text, c, seqs) ==
    LET matches == FindAllStringSubmatchIndex(c.re, text)
        names == SubexpNames(c.re.alts, c.subs, 1)
        hits == GroupHits(matches)
        seqs1 == seqs \o [k \in 1..Len(hits) |-> names[hits[k].g]]
    IN  [seqs |-> seqs1,
         res |-> IF matches # <<>> /\ AllStringsInSlice(c.subs, seqs1)
                 THEN IF hits = <<>> THEN Panicked   \* loc is empty
                      ELSE Returned(<<makeAlert([c.def EXCEPT !.Name = c.def.Extends],
                                                hits[Len(hits)].span, text)>>)
                 ELSE Returned(<<>>)]

\* the pair of the modelled rule, either: {a: 1}
EitherFirst == <<"a">>
EitherSecond == <<"1">>

ConsistencyRules ==
    {compileConsistency(
         [Name |-> RuleName, Extends |-> <<"consistency">>, Level |-> "warning",
          Message |-> RuleMessage, Ignorecase |-> ic, Nonword |-> FALSE],
         RuleName, EitherFirst, EitherSecond, 2) : ic \in BOOLEAN}

\* the scopes of the file handed to the rule, one after the other
ScopeTexts ==
    {<<>>, <<"a">>, <<"1">>, <<"A">>, <<"b">>, <<"a", " ", "1">>,
     <<"1", "\n", "a">>}

ConsistencyInit ==
    /\ chk \in ConsistencyRules
    /\ txt = <<>>
    /\ ruleRes = NotRun
    /\ NoScan

ScanConsistency ==
    /\ nScans < MaxScans
    /\ ruleRes.kind # "panic"
    /\ \E t \in ScopeTexts :
        /\ txt' = t
        /\ ruleRes' = checkConsistency(t, chk, Sequences).res
        /\ Sequences' = checkConsistency(t, chk, Sequences).seqs
        /\ scanned' = scanned \cup {t}
    /\ nScans' = nScans + 1
    /\ UNCHANGED <<chk, compiled, runs>>

(***************************************************************************)
(* Claims about the consistency rule                                       *)
(***************************************************************************)
\* the offsets at which the word lit stands in text
WordOccurrences(text, lit, ic) ==
    {p \in 0..Len(text) :
        /\ LiteralAt(text, lit, ic, p)
        /\ WordBoundary(text, p)
        /\ WordBoundary(text, p + Len(lit))}

\* the spans of the pair's members in text
PairSpans(text) ==
    {<<p, p + Len(EitherFirst)>> :
        p \in WordOccurrences(text, EitherFirst, chk.re.ic)}
    \cup {<<p, p + Len(EitherSecond)>> :
            p \in WordOccurrences(text, EitherSecond, chk.re.ic)}

\* both members of the pair stand in the scopes scanned so far
BothMatchedSoFar ==
    /\ \E t \in scanned : WordOccurrences(t, EitherFirst, chk.re.ic) # {}
    /\ \E t \in scanned : WordOccurrences(t, EitherSecond, chk.re.ic) # {}

\* the alert is the rule's and lies on the last match of the scope just scanned
OneAlertAtLastMatch ==
    /\ ruleRes.kind = "returned"
    /\ Len(ruleRes.alerts) = 1
    /\ ruleRes.alerts[1].Check = RuleName
    /\ ruleRes.alerts[1].Span \in PairSpans(txt)
    /\ \A sp \in PairSpans(txt) : sp[1] <= ruleRes.alerts[1].Span[1]

\* C11 as stated: after each scan, one alert at the last match of the scope
\* when both members have been matched so far, no alert otherwise.
C11_OneAlertOnceBothMatched ==
    nScans > 0 =>
        IF BothMatchedSoFar THEN OneAlertAtLastMatch
        ELSE ruleRes = Returned(<<>>)

\* C11, amended: after each scan, one alert at the last match of the scope
\* when both members have been matched so far and the scope just scanned has a
\* match of one of them; no alert otherwise.
C11_OneAlertOnceBothMatchedAndScopeMatches ==
    nScans > 0 =>
        IF BothMatchedSoFar /\ PairSpans(txt) # {} THEN OneAlertAtLastMatch
        ELSE ruleRes = Returned(<<>>)

\* the second member arrives in a later scope than the first and is alerted
\* there
C11_Witness ==
    /\ nScans >= 2
    /\ BothMatchedSoFar
    /\ WordOccurrences(txt, EitherFirst, chk.re.ic) = {}
    /\ WordOccurrences(txt, EitherSecond, chk.re.ic) # {}
    /\ Len(ruleRes.alerts) = 1

(***************************************************************************)
(* check: the conditional rule                                             *)
(***************************************************************************)
\* the text of a group of a match, empty when the group took no part
GroupText(text, span) ==
    IF span = NoSpan THEN <<>> ELSE Slice(text, span[1], span[2])

\* isMatch(chk.exceptRe, s): s holds a match of one of the exceptions
isMatch(exceptRe, str) ==
    exceptRe.alts # <<>> /\ FindAllStringIndex(exceptRe, str) # <<>>

\* the rule's `second`, \((A|S)\): a term defined in parentheses
ConditionalSecond == <<"\\", "(", "(", "A", "|", "S", ")", "\\", ")">>
\* the rule's `first`, \b(?:A|S)\b: a term
ConditionalFirst == <<"(", "?", ":", "A", "|", "S", ")">>

\* Manager.addConditionalCheck, with exceptRe as the rule's builder compiles it
compileConditional(def) ==
    [def |-> def,
     r |-> <<[alts |-> <<ParseAtoms(def.Second)>>, ic |-> FALSE, word |-> FALSE,
              wrap |-> FALSE],
             [alts |-> <<ParseAtoms(def.First)>>, ic |-> FALSE, word |-> TRUE,
              wrap |-> FALSE]>>,
     exceptRe |-> [alts |-> [k \in 1..Len(def.Exceptions) |->
                                ParseAtoms(def.Exceptions[k])],
                   ic |-> FALSE, word |-> FALSE, wrap |-> FALSE]]

\* checkConditional looking for the antecedents before it stores the
\* consequents of the scope
checkConditionalFirstThenSecond(text, c, seqs) ==
    LET matches == SelectSeq(FindAllStringSubmatchIndex(c.r[1], text),
                             LAMBDA mat : Len(mat) > 1)
        seqs1 == seqs \o [k \in 1..Len(matches) |-> GroupText(text, matches[k][2])]
        locs == SelectSeq(FindAllStringIndex(c.r[2], text),
                    LAMBDA loc :
                        /\ ~StringInSlice(Slice(text, loc[1], loc[2]), seqs)
                        /\ ~isMatch(c.exceptRe, Slice(text, loc[1], loc[2])))
    IN  [seqs |-> seqs1,
         res |-> Returned([k \in 1..Len(locs) |-> makeAlert(c.def, locs[k], text)])]

\* checkConditional: its result and File.Sequences after the call
checkConditional(text, c, seqs) ==
    LET matches == SelectSeq(FindAllStringSubmatchIndex(c.r[1], text),
                             LAMBDA mat : Len(mat) > 1)
        seqs1 == seqs \o [k \in 1..Len(matches) |-> GroupText(text, matches[k][2])]
        locs == SelectSeq(FindAllStringIndex(c.r[2], text),
                    LAMBDA loc :
                        /\ ~StringInSlice(Slice(text, loc[1], loc[2]), seqs1)
                        /\ ~isMatch(c.exceptRe, Slice(text, loc[1], loc[2])))
    IN  [seqs |-> seqs1,
         res |-> Returned([k \in 1..Len(locs) |-> makeAlert(c.def, locs[k], text)])]

ConditionalTerms == {<<"A">>, <<"S">>}

ConditionalRules ==
    {compileConditional(
         [Name |-> RuleName, Extends |-> <<"conditional">>, Level |-> "warning",
          Message |-> RuleMessage, First |-> ConditionalFirst,
          Second |-> ConditionalSecond, Exceptions |-> ex]) :
        ex \in {<<>>, <<<<"S">>>>}}

ConditionalTexts ==
    {<<>>, <<"A">>, <<"S">>, <<"A", " ", "S">>, <<"(", "A", ")">>,
     <<"S", " ", "(", "A", ")">>, <<"A", " ", "(", "S", ")">>,
     <<"a", " ", "(", "A", ")", " ", "A">>}

ConditionalInit ==
    /\ chk \in ConditionalRules
    /\ txt = <<>>
    /\ ruleRes = NotRun
    /\ NoScan

ScanConditional ==
    /\ nScans < MaxScans
    /\ \E t \in ConditionalTexts :
        /\ txt' = t
        /\ ruleRes' = checkConditional(t, chk, Sequences).res
        /\ Sequences' = checkConditional(t, chk, Sequences).seqs
        /\ scanned' = scanned \cup {t}
    /\ nScans' = nScans + 1
    /\ UNCHANGED <<chk, compiled, runs>>

(***************************************************************************)
(* Claims about the conditional rule                                       *)
(***************************************************************************)
\* the term is defined, in parentheses, in a scope scanned so far
DefinedSoFar(term) ==
    \E t \in scanned : Contains(t, <<"(">> \o term \o <<")">>)

\* the term is one of the rule's exceptions
Excepted(term) ==
    \E k \in 1..Len(chk.def.Exceptions) : Contains(term, chk.def.Exceptions[k])

\* the spans of the terms in the scope just scanned that the rule has to alert
Undefined ==
    UNION {{<<p, p + Len(term)>> : p \in WordOccurrences(txt, term, FALSE)} :
              term \in {u \in ConditionalTerms : ~DefinedSoFar(u) /\ ~Excepted(u)}}

\* C12: the alerts of a call are, in the order of the text, the antecedents of
\* the scope whose term is defined neither in this scope nor in an earlier one
\* and is no exception; no alert is on a term of File.Sequences, which holds
\* every definition seen so far.
C12_AlertsAreTheUndefinedAntecedents ==
    nScans > 0 =>
        /\ ruleRes.kind = "returned"
        /\ {ruleRes.alerts[k].Span : k \in 1..Len(ruleRes.alerts)} = Undefined
        /\ Len(ruleRes.alerts) = Cardinality(Undefined)
        /\ \A k \in 1..(Len(ruleRes.alerts) - 1) :
              ruleRes.alerts[k].Span[1] < ruleRes.alerts[k + 1].Span[1]
        /\ \A k \in 1..Len(ruleRes.alerts) :
              ~StringInSlice(ruleRes.alerts[k].Match, Sequences)
        /\ \A term \in ConditionalTerms :
              DefinedSoFar(term) <=> StringInSlice(term, Sequences)

\* a term used before its definition in the same scope is not alerted, while
\* the other term of that scope is
C12_Witness ==
    /\ txt = <<"S", " ", "(", "A", ")">>
    /\ chk.def.Exceptions = <<>>
    /\ ~DefinedSoFar(<<"S">>)
    /\ Len(ruleRes.alerts) = 1
    /\ ruleRes.alerts[1].Match = <<"S">>

(***************************************************************************)
(* check: the substitution rule                                            *)
(***************************************************************************)
\* strings.Count(s, sub): the occurrences of sub in s that do not overlap
RECURSIVE Count(_, _)
Count(s, sub) ==
    LET i == Index(s, sub)
    IN  IF i < 0 THEN 0
        ELSE 1 + Count(SubSeq(s, i + Len(sub) + 1, Len(s)), sub)

\* Manager.addSubstitutionCheck: the test that lets a swap key into the
\* compiled alternation
KeepsSwapKey(regexstr) ==
    ~(/\ Count(regexstr, <<"(">>) # Count(regexstr, <<"?", ":">>)
      /\ Count(regexstr, <<"(">>) # Count(regexstr, <<"\\", "(">>))

\* Manager.addSubstitutionCheck for the swap map walked in the order given:
\* the compiled alternation, the replacements and the keys they came from
addSubstitutionCheck(def, order) ==
    LET kept == SelectSeq(order, LAMBDA e : KeepsSwapKey(e.obs))
    IN  [def |-> def,
         re |-> [alts |-> [k \in 1..Len(kept) |-> ParseAtoms(kept[k].obs)],
                 ic |-> def.Ignorecase, word |-> ~def.Nonword, wrap |-> TRUE],
         replacements |-> [k \in 1..Len(kept) |-> kept[k].rep],
         kept |-> kept,
         ok |-> Compiles(Join([k \in 1..Len(kept) |->
                                  <<"(">> \o kept[k].obs \o <<")">>], <<"|">>))]

\* core.ToSentence(words, "or"): the quoted words, joined by commas and "or"
ToSentence(words) ==
    LET quoted == [k \in 1..Len(words) |-> <<"'">> \o words[k] \o <<"'">>]
    IN  IF Len(words) = 1 THEN quoted[1]
        ELSE Join(SubSeq(quoted, 1, Len(words) - 1), <<", ">>)
             \o <<" or ">> \o quoted[Len(words)]

\* the loop of checkSubstitution over the groups that took part in a match,
\* from the k-th on; action is chk.Action as the call has left it so far
RECURSIVE SubstitutionLoop(_, _, _, _, _, _)
SubstitutionLoop(text, c, hits, k, action, found) ==
    IF k > Len(hits) THEN Returned(found)
    ELSE IF hits[k].g > Len(c.replacements) THEN Panicked  \* repl[(idx/2)-1]
    ELSE LET loc == hits[k].span
             expected == c.replacements[hits[k].g]
             observed == TrimSpace(Slice(text, loc[1], loc[2]))
             fill == action.Name = "replace" /\ action.Params = <<>>
             action1 == IF fill THEN [action EXCEPT !.Params = SplitBar(expected)]
                        ELSE action
             expected1 == IF fill THEN ToSentence(SplitBar(expected)) ELSE expected
         IN  IF expected # observed
             THEN SubstitutionLoop(text, c, hits, k + 1, action1,
                      Append(found,
                          [Check |-> c.def.Name, Severity |-> c.def.Level,
                           Span |-> loc, Hide |-> FALSE, Match |-> observed,
                           Action |-> action1,
                           Message |-> FormatMessage(c.def.Message,
                                                     <<expected1, observed>>)]))
             ELSE SubstitutionLoop(text, c, hits, k + 1, action, found)

\* checkSubstitution, for a rule without a part-of-speech pattern
checkSubstitution(text, c) ==
    SubstitutionLoop(text, c, GroupHits(FindAllStringSubmatchIndex(c.re, text)),
                     1, c.def.Action, <<>>)

\* the entries a swap map is made of: the observed pattern and its replacement
SwapEntry(obs, rep) == [obs |-> obs, rep |-> rep]

SwapEntries ==
    {SwapEntry(<<"a">>, <<"a">>),
     SwapEntry(<<"a", " ", "1">>, <<"x", "|", "y">>),
     SwapEntry(<<"(", "?", ":", "A", ")">>, <<"x">>),
     SwapEntry(<<"(", "a", ")">>, <<"x">>),
     SwapEntry(<<"\\", "(", "a">>, <<"x">>),
     SwapEntry(<<"(", "?", ":", "a", ")", "\\", "(">>, <<"x">>),
     SwapEntry(<<"(", "A", ")", "?", ":", "a">>, <<"x">>)}

\* the swap maps: one or two entries
SwapMaps == {sw \in SUBSET SwapEntries : Cardinality(sw) \in 1..2}

\* the orders in which a walk over the map can visit its entries
RECURSIVE Orders(_)
Orders(sw) ==
    IF sw = {} THEN {<<>>}
    ELSE UNION {{<<e>> \o o : o \in Orders(sw \ {e})} : e \in sw}

SubstitutionRules ==
    {[Name |-> RuleName, Extends |-> <<"substitution">>, Level |-> "warning",
      Message |-> RuleMessage, Ignorecase |-> ic, Nonword |-> FALSE,
      Action |-> [Name |-> an, Params |-> <<>>], Swap |-> sw] :
        ic \in BOOLEAN, an \in {"", "replace"}, sw \in SwapMaps}

SubstitutionTexts ==
    {<<"a">>, <<"A">>, <<"a", " ", "1">>, <<"A", ":", "a">>, <<"1", " ", "a">>,
     <<"A", " ", "a", " ", "1">>}

SubstitutionInit ==
    /\ chk \in SubstitutionRules
    /\ txt \in SubstitutionTexts
    /\ ruleRes = NotRun
    /\ NoScan

\* the manifest is loaded once more: the swap map is walked in some order
LoadSubstitution ==
    /\ Len(compiled) < MaxLoads
    /\ \E order \in Orders(chk.Swap) :
        compiled' = Append(compiled, addSubstitutionCheck(chk, order))
    /\ UNCHANGED <<txt, chk, ruleRes, Sequences, scanned, nScans, runs>>

\* the rules compiled so far are run on the text
RunSubstitution ==
    /\ compiled # <<>>
    /\ runs = <<>>
    /\ runs' = [k \in 1..Len(compiled) |-> checkSubstitution(txt, compiled[k])]
    /\ UNCHANGED <<txt, chk, ruleRes, Sequences, scanned, nScans, compiled>>

(***************************************************************************)
(* Claims about the substitution rule                                      *)
(***************************************************************************)
\* C13: a swap entry is left out of the compiled alternation exactly when its
\* observed pattern has a capturing group.
C13_LeftOutIffCapturingGroup ==
    \A k \in 1..Len(compiled) : \A e \in chk.Swap :
        (\E i \in 1..Len(compiled[k].kept) : compiled[k].kept[i] = e)
            <=> NumCap(ParseAtoms(e.obs)) = 0

\* the number of the group that addSubstitutionCheck puts around the j-th
\* alternative
RECURSIVE OuterGroup(_, _)
OuterGroup(alts, j) ==
    IF j = 1 THEN 1 ELSE OuterGroup(alts, j - 1) + 1 + NumCap(alts[j - 1])

\* the swap entry whose pattern made the match mt of the compiled rule c
MatchedEntry(c, mt) ==
    c.kept[CHOOSE j \in 1..Len(c.kept) : mt[1 + OuterGroup(c.re.alts, j)] # NoSpan]

\* the matches of c in txt whose trimmed text differs from the replacement
\* its own swap entry gives
Differing(c) ==
    SelectSeq(FindAllStringSubmatchIndex(c.re, txt),
              LAMBDA mt : TrimSpace(Slice(txt, mt[1][1], mt[1][2]))
                              # MatchedEntry(c, mt).rep)

\* C14: every match is paired with the replacement of the swap entry whose
\* pattern matched, and the alerts are the matches whose trimmed text differs
\* from that replacement.
C14_ReplacementOfTheMatchedEntry ==
    \A k \in 1..Len(runs) :
        /\ runs[k].kind = "returned"
        /\ Len(runs[k].alerts) = Len(Differing(compiled[k]))
        /\ \A i \in 1..Len(runs[k].alerts) :
              LET a == runs[k].alerts[i]
                  mt == Differing(compiled[k])[i]
                  rep == MatchedEntry(compiled[k], mt).rep
              IN  /\ a.Span = mt[1]
                  /\ a.Match = TrimSpace(Slice(txt, mt[1][1], mt[1][2]))
                  /\ a.Message.subs[1] \in {rep, ToSentence(SplitBar(rep))}

\* C20: two loads of the same manifest give the same alerts on the same text.
C20_SameAlertsOnEveryLoad ==
    \A j, k \in 1..Len(runs) : runs[j] = runs[k]

\* C29: in one call for a rule with the action `replace` and no configured
\* params, every alert carries as Action.Params the alternatives of its own
\* replacement and names that replacement in its message, whatever the
\* replacements of the alerts before it
C29_ParamsOfItsOwnReplacement ==
    \A k \in 1..Len(runs) :
        (/\ compiled[k].def.Action.Name = "replace"
         /\ runs[k].kind = "returned"
         /\ Len(runs[k].alerts) = Len(Differing(compiled[k]))) =>
            \A i \in 1..Len(runs[k].alerts) :
                LET rep == MatchedEntry(compiled[k], Differing(compiled[k])[i]).rep
                IN  /\ runs[k].alerts[i].Action.Params = SplitBar(rep)
                    /\ runs[k].alerts[i].Message.subs[1] = ToSentence(SplitBar(rep))

(***************************************************************************)
(* check: the existence rule                                               *)
(***************************************************************************)
\* Manager.addExistenceCheck: the tokens joined by | inside the word template
\* (or the non-word template when Nonword or without tokens)
addExistenceCheck(def) ==
    [def |-> def,
     re |-> [alts |-> [k \in 1..Len(def.Tokens) |-> ParseAtoms(def.Tokens[k])],
             ic |-> def.Ignorecase,
             word |-> ~def.Nonword /\ Len(def.Tokens) > 0,
             wrap |-> FALSE],
     ok |-> Compiles(Join(def.Tokens, <<"|">>))]

\* checkExistence, and Existence.Run alike: one alert per match
checkExistence(text, c) ==
    Returned([k \in 1..Len(FindAllStringIndex(c.re, text)) |->
                 makeAlert(c.def, FindAllStringIndex(c.re, text)[k], text)])

ExistenceRules ==
    {addExistenceCheck(
         [Name |-> RuleName, Extends |-> <<"existence">>, Level |-> "warning",
          Message |-> RuleMessage, Ignorecase |-> ic, Nonword |-> nw,
          Tokens |-> tk]) :
        ic \in BOOLEAN, nw \in BOOLEAN,
        tk \in {<<<<"a">>>>, <<<<"a", "?">>>>, <<<<"a">>, <<"1">>>>}}

ExistenceInit ==
    txt \in Texts /\ chk \in ExistenceRules /\ ruleRes = NotRun /\ NoScan

RunExistence ==
    /\ ruleRes = NotRun
    /\ ruleRes' = checkExistence(txt, chk)
    /\ UNCHANGED <<txt, chk>>
    /\ ScanIdle

(***************************************************************************)
(* Claims about the existence rule                                         *)
(***************************************************************************)
\* C15: no alert of an existence rule is for an empty match.
C15_NoAlertForAnEmptyMatch ==
    \A k \in 1..Len(ruleRes.alerts) : ruleRes.alerts[k].Match # <<>>

(***************************************************************************)
(* check: the sequence rule                                                *)
(***************************************************************************)
MaxSeqTokens == 2
MaxSeqWords == 4

\* checkBuilders["sequence"]: every token of the manifest, followed by Skip
\* optional copies of itself
RECURSIVE ExpandTokens(_)
ExpandTokens(tokens) ==
    IF tokens = <<>> THEN <<>>
    ELSE LET tok == [Pattern |-> tokens[1].Pattern, Negate |-> tokens[1].Negate,
                     Tag |-> tokens[1].Tag, optional |-> FALSE]
         IN  <<tok>> \o [k \in 1..tokens[1].Skip |-> [tok EXCEPT !.optional = TRUE]]
             \o ExpandTokens(Tail(tokens))

\* Manager.addSequenceCheck: the expression of every token that has a pattern
\* (re is empty for a token without one); the history starts empty
addSequenceCheck(def) ==
    [def |-> def,
     Tokens |-> [k \in 1..Len(def.Tokens) |->
                    [Pattern |-> def.Tokens[k].Pattern, Negate |-> def.Tokens[k].Negate,
                     Tag |-> def.Tokens[k].Tag, optional |-> def.Tokens[k].optional,
                     re |-> IF def.Tokens[k].Pattern # <<>>
                            THEN <<[alts |-> <<ParseAtoms(def.Tokens[k].Pattern)>>,
                                    ic |-> def.Ignorecase, word |-> TRUE, wrap |-> FALSE]>>
                            ELSE <<>>]],
     history |-> <<>>]

\* tokensMatch: the tag expression is searched in the word's tag, the token's
\* expression in the word's text
tokensMatch(token, word) ==
    LET failedTag == ~(token.Tag = <<>> \/ token.Tag = word.Tag)
        failed(failedTok) ==
            \/ token.Pattern = <<>> /\ failedTag
            \/ token.Tag = <<>> /\ failedTok
            \/ (token.Tag # <<>> /\ token.Pattern # <<>>) /\ (failedTag \/ failedTok)
    IN  ~failed(/\ token.re # <<>>
                /\ (FindAllStringIndex(token.re[1], word.Text) # <<>>) = token.Negate)

\* the walk to the left that goes on after a word matched an optional token
RECURSIVE WalkLeftNoBreak(_, _, _, _, _, _)
WalkLeftNoBreak(toks, words, idx, jdx, i, text) ==
    IF idx - i < 0 THEN [kind |-> "done", text |-> text]
    ELSE IF jdx - i < 0 THEN [kind |-> "panic", text |-> text]
    ELSE LET word == words[jdx - i + 1]
             mat == tokensMatch(toks[idx - i + 1], word)
             opt == toks[idx - i + 1].optional
         IN  IF ~mat /\ ~opt THEN [kind |-> "abort", text |-> <<>>]
             ELSE WalkLeftNoBreak(toks, words, idx, jdx, i + 1, <<word.Text>> \o text)

\* sequenceMatches, "Check the left-end of the sequence": step i of the loop,
\* with Go's 0-based indexes idx of the anchor token and jdx of the anchor word
RECURSIVE WalkLeft(_, _, _, _, _, _)
WalkLeft(toks, words, idx, jdx, i, text) ==
    IF idx - i < 0 THEN [kind |-> "done", text |-> text]
    ELSE IF jdx - i < 0 THEN [kind |-> "panic", text |-> text]
    ELSE LET word == words[jdx - i + 1]
             mat == tokensMatch(toks[idx - i + 1], word)
             opt == toks[idx - i + 1].optional
         IN  IF ~mat /\ ~opt THEN [kind |-> "abort", text |-> <<>>]
             ELSE IF mat /\ opt THEN [kind |-> "done", text |-> <<word.Text>> \o text]
             ELSE WalkLeft(toks, words, idx, jdx, i + 1, <<word.Text>> \o text)

\* sequenceMatches, "Check the right-end of the sequence": step i of the loop
RECURSIVE WalkRight(_, _, _, _, _, _)
WalkRight(toks, words, idx, jdx, i, text) ==
    IF idx + i >= Len(toks) THEN [kind |-> "done", text |-> text]
    ELSE IF jdx + i >= Len(words) THEN [kind |-> "panic", text |-> text]
    ELSE LET word == words[jdx + i + 1]
             mat == tokensMatch(toks[idx + i + 1], word)
             opt == toks[idx + i + 1].optional
             text1 == (IF i = 1 THEN Append(text, words[jdx + 1].Text) ELSE text)
                      \o <<word.Text>>
         IN  IF ~mat /\ ~opt THEN [kind |-> "abort", text |-> <<>>]
             ELSE IF mat /\ opt THEN [kind |-> "done", text |-> text1]
             ELSE WalkRight(toks, words, idx, jdx, i + 1, text1)

\* the first word (0-based) with the target's text whose index is not in the
\* history, or -1
FreeWord(words, target, hist) ==
    LET free == {j \in 0..(Len(words) - 1) :
                    words[j + 1].Text = target /\ \A h \in 1..Len(hist) : hist[h] # j}
    IN  IF free = {} THEN -1 ELSE CHOOSE j \in free : \A k \in free : j <= k

\* sequenceMatches(idx, chk, target, src) on the words of src: the steps and
\* the index it returns, or a panic on an index out of range
sequenceMatches(idx, c, target, words) ==
    LET \* what is returned once both ends have been walked
        ends(jdx, left, right) ==
            IF jdx < 0
            THEN [kind |-> "done", found |-> FALSE, steps |-> <<>>, index |-> 0]
            ELSE IF left.kind # "done"
            THEN [kind |-> left.kind, found |-> TRUE, steps |-> <<>>, index |-> jdx]
            ELSE [kind |-> right.kind, found |-> TRUE,
                  steps |-> IF right.kind = "done" THEN right.text ELSE <<>>,
                  index |-> jdx]
        rightEnd(jdx, left) ==
            ends(jdx, left, WalkRight(c.Tokens, words, idx, jdx, 1, left.text))
        leftEnd(jdx) ==
            rightEnd(jdx, IF idx > 0 THEN WalkLeft(c.Tokens, words, idx, jdx, 1, <<>>)
                          ELSE [kind |-> "done", text |-> <<>>])
    IN  leftEnd(FreeWord(words, target, c.history))

\* the text of a list of words (stepsToString for steps that are words)
SequenceText(texts) == Join(texts, <<" ">>)

\* checkSequence, the loop over the matches of the anchor token idx: match k
\* of n with the rule as the call holds it, the alerts so far and the
\* candidates walked so far
RECURSIVE checkSequenceLoop(_, _, _, _, _, _, _)
checkSequenceLoop(words, c, idx, locs, k, alerts, walked) ==
    IF k > Len(locs) THEN [res |-> Returned(alerts), walked |-> walked, rule |-> c]
    ELSE LET txtStr == SequenceText([w \in 1..Len(words) |-> words[w].Text])
             target == Slice(txtStr, locs[k][1], locs[k][2])
             alert(steps, seq, at) ==
                 [Check |-> c.def.Name, Severity |-> c.def.Level,
                  Span |-> <<at, at + Len(seq)>>, Match |-> seq,
                  Message |-> FormatMessage(c.def.Message, steps)]
             \* the body of the loop once sequenceMatches has returned m
             body(m) ==
                 IF m.kind = "panic"
                 THEN [res |-> Panicked, walked |-> Append(walked, m), rule |-> c]
                 ELSE checkSequenceLoop(
                          words, [c EXCEPT !.history = Append(c.history, m.index)],
                          idx, locs, k + 1,
                          IF m.steps # <<>>
                          THEN Append(alerts,
                                      alert(m.steps, SequenceText(m.steps),
                                            Index(txtStr, SequenceText(m.steps))))
                          ELSE alerts,
                          Append(walked, m))
         IN  body(sequenceMatches(idx, c, target, words))

\* the 0-based index of the anchor token: the first one that is not negated
\* and has a pattern, or -1
AnchorToken(c) ==
    LET anchors == {k \in 1..Len(c.Tokens) :
                       ~c.Tokens[k].Negate /\ c.Tokens[k].Pattern # <<>>}
    IN  IF anchors = {} THEN -1
        ELSE (CHOOSE k \in anchors : \A j \in anchors : k <= j) - 1

\* checkSequence(txt, chk, f) on the words of txt
checkSequence(words, c) ==
    LET idx == AnchorToken(c)
        txtStr == SequenceText([w \in 1..Len(words) |-> words[w].Text])
    IN  IF idx < 0 THEN [res |-> Returned(<<>>), walked |-> <<>>, rule |-> c]
        ELSE checkSequenceLoop(words, c, idx,
                               FindAllStringIndex(c.Tokens[idx + 1].re[1], txtStr),
                               1, <<>>, <<>>)

\* the tokens a manifest can list and the words the tokenizer can give
ManifestTokens ==
    {[Pattern |-> <<"a">>, Negate |-> FALSE, Tag |-> <<>>, Skip |-> 0],
     [Pattern |-> <<"1">>, Negate |-> FALSE, Tag |-> <<>>, Skip |-> 0],
     [Pattern |-> <<"a">>, Negate |-> TRUE, Tag |-> <<>>, Skip |-> 0],
     [Pattern |-> <<"a">>, Negate |-> FALSE, Tag |-> <<>>, Skip |-> 1],
     [Pattern |-> <<"1">>, Negate |-> FALSE, Tag |-> <<"N">>, Skip |-> 1],
     [Pattern |-> <<>>, Negate |-> FALSE, Tag |-> <<"N">>, Skip |-> 0],
     [Pattern |-> <<>>, Negate |-> FALSE, Tag |-> <<"N">>, Skip |-> 1]}

SequenceWords ==
    {[Text |-> <<"a">>, Tag |-> <<"N">>], [Text |-> <<"1">>, Tag |-> <<"V">>],
     [Text |-> <<"1">>, Tag |-> <<"N">>]}

SequenceRules ==
    {addSequenceCheck(
         [Name |-> RuleName, Extends |-> <<"sequence">>, Level |-> "warning",
          Message |-> RuleMessage, Ignorecase |-> FALSE,
          Tokens |-> ExpandTokens(tk)]) :
        tk \in UNION {[1..n -> ManifestTokens] : n \in 1..MaxSeqTokens}}

SequenceInit ==
    /\ txt \in UNION {[1..n -> SequenceWords] : n \in 0..MaxSeqWords}
    /\ chk \in SequenceRules
    /\ ruleRes = NotRun
    /\ NoScan

\* the rule function of the sequence rule is called on the summary txt
RunSequence ==
    /\ ruleRes = NotRun
    /\ \E ran \in {checkSequence(txt, chk)} :
        /\ ruleRes' = ran.res
        /\ runs' = ran.walked
    /\ UNCHANGED <<txt, chk, Sequences, scanned, nScans, compiled>>

(***************************************************************************)
(* Claims about the sequence rule                                          *)
(***************************************************************************)
\* whether the word i places to the side of the anchor word jdx (side -1 is
\* left, 1 is right) matches the token i places to that side of the anchor
\* token, and whether that token is optional
SideMatch(jdx, side, i) ==
    tokensMatch(chk.Tokens[AnchorToken(chk) + side * i + 1], txt[jdx + side * i + 1])
SideOptional(side, i) == chk.Tokens[AnchorToken(chk) + side * i + 1].optional

\* the number of tokens to one side of the anchor token
SideTokens(side) ==
    IF side = -1 THEN AnchorToken(chk) ELSE Len(chk.Tokens) - 1 - AnchorToken(chk)

\* the steps at which the walk on a side stops before the tokens run out
SideStops(jdx, side) ==
    {i \in 1..SideTokens(side) :
        /\ SideMatch(jdx, side, i) = SideOptional(side, i)
        /\ \A k \in 1..(i - 1) : SideMatch(jdx, side, k) # SideOptional(side, k)}

\* the walk on a side comes to a word that does not match a mandatory token
SideAborts(jdx, side) == \E i \in SideStops(jdx, side) : ~SideOptional(side, i)

\* the number of words the walk on a side takes in
SideReach(jdx, side) ==
    IF SideStops(jdx, side) = {} THEN SideTokens(side)
    ELSE CHOOSE i \in SideStops(jdx, side) : TRUE

\* the candidates of the run whose walks stay inside the text
WalkedInRange ==
    {k \in 1..Len(runs) :
        /\ runs[k].found
        /\ runs[k].index - SideTokens(-1) >= 0
        /\ runs[k].index + SideTokens(1) < Len(txt)}

\* C23: walking left and right from the anchor word, a word that does not
\* match a mandatory token aborts the candidate (no steps, no alert); a word
\* that matches an optional token ends the walk on that side; a word that
\* does not match an optional token lets the walk go on with the next token
C23_WalkAbortsEndsOrGoesOn ==
    ruleRes.kind = "returned" =>
        /\ \A k \in WalkedInRange :
              LET jdx == runs[k].index
                  lo == SideReach(jdx, -1)
                  hi == SideReach(jdx, 1)
              IN  IF SideAborts(jdx, -1) \/ SideAborts(jdx, 1)
                  THEN runs[k].steps = <<>>
                  ELSE runs[k].steps =
                           [w \in 1..lo |-> txt[jdx - lo + w].Text]
                           \o (IF SideTokens(1) > 0
                               THEN [w \in 1..(hi + 1) |-> txt[jdx + w].Text]
                               ELSE <<>>)
        /\ Len(ruleRes.alerts) = Cardinality({k \in 1..Len(runs) : runs[k].steps # <<>>})

\* a run with a candidate that a mandatory token aborted and a candidate whose
\* walk an optional token ended before the tokens ran out
C23_Witness ==
    /\ ruleRes.kind = "returned"
    /\ \E k \in WalkedInRange :
          SideAborts(runs[k].index, -1) \/ SideAborts(runs[k].index, 1)
    /\ \E k \in WalkedInRange : \E side \in {-1, 1} :
          /\ ~SideAborts(runs[k].index, -1) /\ ~SideAborts(runs[k].index, 1)
          /\ SideStops(runs[k].index, side) # {}
          /\ SideReach(runs[k].index, side) < SideTokens(side)
          /\ runs[k].steps # <<>>

\* C27: checkSequence and sequenceMatches read word indexes inside the text
\* only: a candidate too close to an end of the text is rejected, and the
\* call returns
C27_NoWordIndexOutOfRange ==
    ruleRes.kind # "panic"

(***************************************************************************)
(* check: NewExistence                                                     *)
(***************************************************************************)
\* NewExistence(cfg, generic) for a manifest without raw: the rule it returns
\* (pattern is empty when the rule has no compiled pattern) and the error
\* with the path it names (kind "nil" when there is none)
NewExistence(generic) ==
    LET \* `if p, ok := generic["path"].(string); !ok { path = p }`: p is the
        \* zero string when the assertion fails, and path is left alone when
        \* it holds
        path == IF generic.path.t # "string" THEN <<>> ELSE <<>>
        def == [Name |-> generic.Name, Extends |-> <<"existence">>,
                Level |-> generic.Level, Message |-> generic.Message,
                Ignorecase |-> generic.Ignorecase, Nonword |-> generic.Nonword,
                Tokens |-> generic.Tokens]
        c == addExistenceCheck(def)
    IN  IF ~generic.decodes
        THEN [rule |-> [def |-> [Name |-> <<>>], pattern |-> <<>>],
              err |-> [kind |-> "structure", path |-> path]]
        ELSE IF ~c.ok
        THEN [rule |-> [def |-> def, pattern |-> <<>>],
              err |-> [kind |-> "E201", path |-> path]]
        ELSE [rule |-> [def |-> def, pattern |-> <<c.re>>],
              err |-> [kind |-> "nil", path |-> <<>>]]

\* the manifests handed to NewExistence: generic["path"] is missing, a string
\* or a number; the map decodes into the rule or does not
ExistenceManifests ==
    {[Name |-> RuleName, Level |-> "warning", Message |-> RuleMessage,
      path |-> pt, decodes |-> dc, Ignorecase |-> ic, Nonword |-> nw,
      Tokens |-> tk] :
        pt \in {[t |-> "absent", v |-> <<>>], [t |-> "string", v |-> <<"S", "/", "R">>],
                [t |-> "int", v |-> <<"1">>]},
        dc \in BOOLEAN, ic \in BOOLEAN, nw \in BOOLEAN,
        tk \in {<<>>, <<<<"a">>>>, <<<<"a", "(">>>>, <<<<"a">>, <<"1">>>>}}

NewExistenceInit ==
    /\ chk \in ExistenceManifests
    /\ txt = <<>>
    /\ ruleRes = NotRun
    /\ NoScan

CallNewExistence ==
    /\ compiled = <<>>
    /\ compiled' = <<NewExistence(chk)>>
    /\ UNCHANGED <<txt, chk, ruleRes, Sequences, scanned, nScans, runs>>

\* C30: when NewExistence fails, on decoding or on compiling, its error names
\* the manifest path handed over in generic["path"] and the rule it returns
\* has no compiled pattern
C30_ErrorNamesTheManifestPath ==
    \A k \in 1..Len(compiled) :
        compiled[k].err.kind # "nil" =>
            /\ compiled[k].rule.pattern = <<>>
            /\ chk.path.t = "string" => compiled[k].err.path = chk.path.v

(***************************************************************************)
(* Rule functions called again and again on the rules compiled at startup  *)
(***************************************************************************)
MaxInvokes == 3

\* the extension points whose check function writes to its chk parameter
InvokedKinds == {"sequence", "substitution", "consistency"}

\* the rules the registry holds after startup, one of each kind
InvokedRules ==
    [sequence |->
        addSequenceCheck(
            [Name |-> RuleName, Extends |-> <<"sequence">>, Level |-> "warning",
             Message |-> RuleMessage, Ignorecase |-> FALSE,
             Tokens |-> ExpandTokens(
                 <<[Pattern |-> <<"a">>, Negate |-> FALSE, Tag |-> <<>>, Skip |-> 0],
                   [Pattern |-> <<"1">>, Negate |-> FALSE, Tag |-> <<>>, Skip |-> 0]>>)]),
     substitution |->
        addSubstitutionCheck(
            [Name |-> RuleName, Extends |-> <<"substitution">>, Level |-> "warning",
             Message |-> RuleMessage, Ignorecase |-> FALSE, Nonword |-> FALSE,
             Action |-> [Name |-> "replace", Params |-> <<>>],
             Swap |-> {SwapEntry(<<"a", " ", "1">>, <<"x", "|", "y">>)}],
            <<SwapEntry(<<"a", " ", "1">>, <<"x", "|", "y">>)>>),
     consistency |->
        compileConsistency(
            [Name |-> RuleName, Extends |-> <<"consistency">>, Level |-> "warning",
             Message |-> RuleMessage, Ignorecase |-> FALSE, Nonword |-> FALSE],
            RuleName, EitherFirst, EitherSecond, 2)]

\* the texts the rule functions are called on, as the words of the tokenizer
InvokedTexts ==
    {<<[Text |-> <<"a">>, Tag |-> <<"N">>]>>,
     <<[Text |-> <<"a">>, Tag |-> <<"N">>], [Text |-> <<"1">>, Tag |-> <<"V">>]>>,
     <<[Text |-> <<"1">>, Tag |-> <<"N">>], [Text |-> <<"a">>, Tag |-> <<"N">>]>>}

\* the rule function registered for the compiled rule c, called on the words
\* of a text of a file whose Sequences are seqs: the alerts it returns,
\* File.Sequences after the call, and chk, the function's parameter as the
\* call leaves it (history appended, Params filled, Name replaced)
fn(kind, c, words, seqs) ==
    LET text == SequenceText([w \in 1..Len(words) |-> words[w].Text])
        ofSequence(ran) == [res |-> ran.res, seqs |-> seqs, chk |-> ran.rule]
        ofSubstitution(res) ==
            [res |-> res, seqs |-> seqs,
             chk |-> IF res.alerts # <<>>
                     THEN [c EXCEPT !.def.Action = res.alerts[Len(res.alerts)].Action]
                     ELSE c]
        ofConsistency(ran) ==
            [res |-> ran.res, seqs |-> ran.seqs,
             chk |-> IF ran.res.alerts # <<>>
                     THEN [c EXCEPT !.def.Name = c.def.Extends]
                     ELSE c]
    IN  CASE kind = "sequence" -> ofSequence(checkSequence(words, c))
          [] kind = "substitution" -> ofSubstitution(checkSubstitution(text, c))
          [] kind = "consistency" -> ofConsistency(checkConsistency(text, c, seqs))

\* a check function that took its rule by reference: what it wrote to chk
\* would be the registry's rule from then on
RuleAfterCallByReference(c, local) == local

\* the rule the registry holds after a call: chk is a struct passed by value,
\* and what the call assigned to its fields is dropped with the call's copy
RuleAfterCall(c, local) == c

InvokeInit ==
    /\ chk = InvokedRules
    /\ compiled = InvokedRules
    /\ txt = <<>>
    /\ ruleRes = NotRun
    /\ Sequences = <<>> /\ scanned = {} /\ nScans = 0 /\ runs = <<>>

\* one rule function is called on a text, of the file at hand or of the next
Invoke ==
    /\ nScans < MaxInvokes
    /\ \E kind \in InvokedKinds, words \in InvokedTexts, nextFile \in BOOLEAN :
        \E seqs \in {IF nextFile THEN <<>> ELSE Sequences} :
        \E ran \in {fn(kind, compiled[kind], words, seqs)} :
            /\ txt' = words
            /\ ruleRes' = ran.res
            /\ Sequences' = ran.seqs
            /\ compiled' = [compiled EXCEPT ![kind] = RuleAfterCall(@, ran.chk)]
            /\ runs' = Append(runs, [kind |-> kind, words |-> words, seqs |-> seqs,
                                     from |-> compiled[kind], chk |-> ran.chk,
                                     res |-> ran.res])
    /\ nScans' = nScans + 1
    /\ UNCHANGED <<chk, scanned>>

OtherStyleRule == <<"T", ".", "R">>

\* a second conditional rule: its consequent is written =A, not (A)
OtherSecond == <<"=", "(", "A", "|", "S", ")">>

conditionalOf(name, second) ==
    [kind |-> "conditional",
     c |-> compileConditional(
               [Name |-> name, Extends |-> <<"conditional">>, Level |-> "warning",
                Message |-> RuleMessage, First |-> ConditionalFirst,
                Second |-> second, Exceptions |-> <<>>])]

consistencyOf(chkName, v1, v2) ==
    [kind |-> "consistency",
     c |-> compileConsistency(
               [Name |-> chkName, Extends |-> <<"consistency">>, Level |-> "warning",
                Message |-> RuleMessage, Ignorecase |-> FALSE, Nonword |-> FALSE],
               chkName, v1, v2, 2)]

\* the two rules of the registry that apply to the file
SharedRulePairs ==
    {<<conditionalOf(RuleName, ConditionalSecond),
       conditionalOf(OtherStyleRule, OtherSecond)>>,
     <<consistencyOf(RuleName, EitherFirst, EitherSecond),
       consistencyOf(OtherStyleRule, <<"A">>, <<"b">>)>>,
     <<conditionalOf(RuleName, ConditionalSecond),
       consistencyOf(RuleName, EitherFirst, EitherSecond)>>}

SharedTexts ==
    {<<"a">>, <<"1">>, <<"b">>, <<"A">>, <<"(", "A", ")">>, <<"=", "A">>}

\* the rule function of a conditional or a consistency rule, called on a
\* scope of the file whose Sequences are seqs
fnOnFile(rule, text, seqs) ==
    IF rule.kind = "conditional" THEN checkConditional(text, rule.c, seqs)
    ELSE checkConsistency(text, rule.c, seqs)

SharedInit ==
    /\ chk \in SharedRulePairs
    /\ txt = <<>>
    /\ ruleRes = NotRun
    /\ NoScan

\* one of the two rules is run on a scope of the file
ScanShared ==
    /\ nScans < MaxScans
    /\ \E k \in 1..2, t \in SharedTexts :
        \E ran \in {fnOnFile(chk[k], t, Sequences)} :
            /\ txt' = t
            /\ ruleRes' = ran.res
            /\ Sequences' = ran.seqs
            /\ runs' = Append(runs, [k |-> k, text |-> t, res |-> ran.res])
    /\ nScans' = nScans + 1
    /\ UNCHANGED <<chk, scanned, compiled>>

\* the result of the last call when the rule alone is run on the scopes
\* texts, one after the other, of a file whose Sequences start as seqs
RECURSIVE RunAlone(_, _, _)
RunAlone(rule, texts, seqs) ==
    IF Len(texts) = 1 THEN fnOnFile(rule, texts[1], seqs).res
    ELSE RunAlone(rule, Tail(texts), fnOnFile(rule, texts[1], seqs).seqs)

\* the scopes the rule of the j-th call has been run on up to that call
OwnTexts(j) ==
    LET own == SelectSeq(SubSeq(runs, 1, j), LAMBDA r : r.k = runs[j].k)
    IN  [i \in 1..Len(own) |-> own[i].text]

\* C28 as stated: every call of a rule returns the alerts the rule returns
\* when it alone is run on the scopes it has seen, whatever the other rule
\* has appended to File.Sequences in between.
C28_OtherRulesEntriesChangeNoAlerts ==
    \A j \in 1..Len(runs) :
        runs[j].res = RunAlone(chk[runs[j].k], OwnTexts(j), <<>>)

(***************************************************************************)
(* The vocabulary rules of NewManager                                      *)
(***************************************************************************)
ValeTerms == <<"Vale", ".", "Terms">>
ValeAvoid == <<"Vale", ".", "Avoid">>

\* core.IsPhrase: the term is made of letters, digits and spaces only
IsPhrase(term) ==
    \A k \in 1..Len(term) : term[k] \in Letters \cup Digits \cup {" "}

\* core.CheckError as its callers use it: the error is nil
CheckError(ok) == ok

\* the Substitution that loadVocabRules builds from the accepted terms
TermsDefinition(config) ==
    [Name |-> ValeTerms, Extends |-> <<"substitution">>, Level |-> <<"error">>,
     Message |-> <<"Use '%s' instead of '%s'.">>, Scope |-> TextScope,
     Ignorecase |-> TRUE, Nonword |-> FALSE,
     Action |-> [Name |-> "", Params |-> <<>>],
     Swap |-> {SwapEntry(ToLower(term), term) :
                  term \in {t \in config.AcceptedTokens : IsPhrase(t)}}]

\* the Existence that loadVocabRules builds from the rejected terms, appended
\* in the order the map hands them out
AvoidDefinition(rejOrder) ==
    [Name |-> ValeAvoid, Extends |-> <<"existence">>, Level |-> <<"error">>,
     Message |-> <<"Avoid using '%s'.">>, Scope |-> TextScope,
     Ignorecase |-> FALSE, Nonword |-> FALSE,
     Tokens |-> rejOrder]

\* loadVocabRules that registers both rules whether or not they compile
loadVocabRulesUnchecked(ac, config, swapOrder, rejOrder) ==
    LET terms == addSubstitutionCheck(TermsDefinition(config), swapOrder)
        avoid == addExistenceCheck(AvoidDefinition(rejOrder))
        ac1 == IF config.AcceptedTokens # {}
               THEN updateAllChecks(ac, terms.def) ELSE ac
        ac2 == IF config.RejectedTokens # {}
               THEN updateAllChecks(ac1, avoid.def) ELSE ac1
    IN  [ac |-> ac2,
         rules |-> (IF config.AcceptedTokens # {} THEN <<terms>> ELSE <<>>)
                   \o (IF config.RejectedTokens # {} THEN <<avoid>> ELSE <<>>)]

\* Manager.loadVocabRules with addSubstitutionCheck and addExistenceCheck,
\* which register a rule only when its expression compiles
loadVocabRules(ac, config, swapOrder, rejOrder) ==
    LET terms == addSubstitutionCheck(TermsDefinition(config), swapOrder)
        avoid == addExistenceCheck(AvoidDefinition(rejOrder))
        hasTerms == config.AcceptedTokens # {} /\ CheckError(terms.ok)
        hasAvoid == config.RejectedTokens # {} /\ CheckError(avoid.ok)
        ac1 == IF hasTerms THEN updateAllChecks(ac, terms.def) ELSE ac
        ac2 == IF hasAvoid THEN updateAllChecks(ac1, avoid.def) ELSE ac1
    IN  [ac |-> ac2,
         rules |-> (IF hasTerms THEN <<terms>> ELSE <<>>)
                   \o (IF hasAvoid THEN <<avoid>> ELSE <<>>)]

AcceptedTerms == {<<"A">>, <<"a", " ", "1">>, <<"a", "?">>}
RejectedTerms == {<<"a">>, <<"1">>, <<"a", "(">>}

\* the configurations: with or without a StylesPath, whose one base style is
\* a directory of one file
VocabConfigs ==
    {[StylesPath |-> sp, AcceptedTokens |-> acc, RejectedTokens |-> rej] :
        sp \in {<<>>, <<"styles">>},
        acc \in SUBSET AcceptedTerms, rej \in SUBSET RejectedTerms}

VocabInit ==
    /\ chk \in VocabConfigs
    /\ txt = <<>>
    /\ ruleRes = NotRun
    /\ NoScan
    /\ ManagerIdleInit

\* NewManager: without a StylesPath only loadDefaultRules runs; with one, the
\* base style is loaded first (a panic in loadCheck ends the program), then
\* loadDefaultRules, which ends with loadVocabRules
NewManager ==
    /\ ~made /\ ~crashed
    /\ \E entry \in EntriesAt(1),
          swapOrder \in Orders(TermsDefinition(chk).Swap),
          rejOrder \in Orders(chk.RejectedTokens) :
        LET styled == IF chk.StylesPath = <<>>
                      THEN [ac |-> AllChecks, sc |-> Scopes, res |-> NilResult]
                      ELSE loadCheck(AllChecks, Scopes, RuleToLevel, entry)
            vocab == loadVocabRules(styled.ac, chk, swapOrder, rejOrder)
        IN  /\ Scopes' = styled.sc
            /\ IF styled.res.kind = "panic"
               THEN /\ crashed' = TRUE
                    /\ made' = FALSE
                    /\ AllChecks' = styled.ac
                    /\ compiled' = <<>>
               ELSE /\ crashed' = FALSE
                    /\ made' = TRUE
                    /\ AllChecks' = vocab.ac
                    /\ compiled' = vocab.rules
    /\ UNCHANGED <<RuleToLevel, dirKinds, pos, call>>
    /\ UNCHANGED <<txt, chk, ruleRes, Sequences, scanned, nScans, runs>>

\* the rule the manager compiled under a name
VocabRules(name) ==
    {compiled[k] : k \in {j \in DOMAIN compiled : compiled[j].def.Name = name}}

VocabCheck(extends) ==
    [Extends |-> extends, Level |-> LevelToInt(<<"error">>), Scope |-> TextScope]

RejectedCompile ==
    \A o \in Orders(chk.RejectedTokens) : Compiles(Join(o, <<"|">>))

MaxArgs == 1

\* main has not run: no linter, no printer, no help, no exit yet
NotStarted ==
    [pc |-> "start", loadFailed |-> FALSE, linted |-> FALSE, printed |-> "",
     hasAlerts |-> FALSE, help |-> FALSE, status |-> -1]

\* the flags and arguments of the command line, whether config.Load fails,
\* whether standard input is piped in (core.Stat), and what the linter and
\* the printer come to if they run
Invocations ==
    [Output : {"CLI", "line", "JSON"}, NoExit : BOOLEAN, loadErr : BOOLEAN,
     NArg : 0..MaxArgs, Stat : BOOLEAN, lintErr : BOOLEAN, alerts : BOOLEAN]

MainInit ==
    /\ invocation \in Invocations
    /\ process = NotStarted

MainIdleInit ==
    /\ invocation = [Output |-> "CLI", NoExit |-> FALSE, loadErr |-> FALSE,
                     NArg |-> 0, Stat |-> FALSE, lintErr |-> FALSE, alerts |-> FALSE]
    /\ process = NotStarted

MainIdle == UNCHANGED <<invocation, process>>

\* which printer the Output setting selects
Printer(output) ==
    IF output = "line" THEN "PrintLineAlerts"
    ELSE IF output = "JSON" THEN "PrintJSONAlerts"
    ELSE "PrintVerboseAlerts"

\* app.Action: the error it returns is nil
ActionReturnsNil(inv) ==
    IF inv.loadErr /\ inv.Output = "CLI" THEN TRUE
    ELSE IF inv.NArg > 0 \/ inv.Stat
         THEN ~(inv.lintErr \/ (inv.alerts /\ ~inv.NoExit))
         ELSE TRUE

\* main: app.Action, then os.Exit(1) if app.Run returned an error, else
\* os.Exit(0)
Main ==
    /\ process.pc = "start"
    /\ LET inv == invocation
           abort == inv.loadErr /\ inv.Output = "CLI"
           lint == ~abort /\ (inv.NArg > 0 \/ inv.Stat)
       IN  process' = [pc |-> "exited",
                       loadFailed |-> inv.loadErr,
                       linted |-> lint,
                       printed |-> IF lint THEN Printer(inv.Output) ELSE "",
                       hasAlerts |-> lint /\ inv.alerts,
                       help |-> ~abort /\ ~lint,
                       status |-> IF ActionReturnsNil(inv) THEN 0 ELSE 1]
    /\ UNCHANGED invocation

\* C17: the lint command exits with status 1 exactly when alerts were
\* reported and NoExit is not set, and with status 0 in every other case
C17_ExitOneIffAlertsAndNotNoExit ==
    process.pc = "exited" =>
        /\ process.status \in {0, 1}
        /\ process.status = 1 <=> (process.hasAlerts /\ ~invocation.NoExit)

\* C18: when loading the configuration fails, no file is linted, whatever
\* the output mode
C18_LoadFailureAbortsBeforeLinting ==
    (process.pc = "exited" /\ process.loadFailed) => ~process.linted

(***************************************************************************)
(* core.NewFile                                                            *)
(***************************************************************************)
MaxCalls == 2

NewFileIdleInit == newFiles = <<>>

NewFileIdle == UNCHANGED newFiles

\* glob.Glob.Match for a pattern of literal characters and *, which stands
\* for any run of characters
RECURSIVE GlobMatch(_, _)
GlobMatch(pat, s) ==
    IF pat = <<>> THEN s = <<>>
    ELSE IF pat[1] = "*"
         THEN \/ GlobMatch(Tail(pat), s)
              \/ s # <<>> /\ GlobMatch(pat, Tail(s))
         ELSE s # <<>> /\ s[1] = pat[1] /\ GlobMatch(Tail(pat), Tail(s))

\* the loop `for sec, v := range m { if <sec matches src> { r = v; break } }`
\* run over the keys in the order the map hands them out
RECURSIVE FirstMatch(_, _, _, _)
FirstMatch(order, map, src, default) ==
    IF order = <<>> THEN default
    ELSE IF GlobMatch(order[1], src) THEN map[order[1]]
    ELSE FirstMatch(Tail(order), map, src, default)

\* core.NewFile for a source that exists: BaseStyles, Checks and Transform,
\* each from its own walk of a map of the Config
NewFileOf(src, config, styleOrder, checkOrder, sheetOrder) ==
    [Path |-> src,
     BaseStyles |-> FirstMatch(styleOrder, config.SBaseStyles, src, config.GBaseStyles),
     Checks |-> FirstMatch(checkOrder, config.SChecks, src, <<>>),
     Transform |-> FirstMatch(sheetOrder, config.Stylesheets, src, <<>>)]

SectionPatterns == {<<"*">>, <<"*", ".", "m">>, <<"a", ".", "m">>}
SourcePaths == {<<"a", ".", "m">>, <<"b", ".", "m">>, <<"a", ".", "t">>}

\* what a section of the configuration file sets: its BasedOnStyles, its
\* rule switches and its Transform
SectionStyles(sec) ==
    IF sec = <<"*">> THEN <<<<"S">>>>
    ELSE IF sec = <<"*", ".", "m">> THEN <<<<"Q">>>>
    ELSE <<<<"S">>, <<"Q">>>>

SectionChecks(sec) ==
    IF sec = <<"*">> THEN MapPut(<<>>, RuleName, TRUE)
    ELSE IF sec = <<"*", ".", "m">> THEN MapPut(<<>>, RuleName, FALSE)
    ELSE MapPut(<<>>, <<"S", ".", "Q">>, TRUE)

SectionTransform(sec) == sec \o <<".", "x", "s", "l">>

\* the configurations: every section has its pattern in SecToPat, and each of
\* the three maps holds some of the sections
FileConfigs ==
    {[Path |-> src, GBaseStyles |-> <<<<"G">>>>,
      SBaseStyles |-> [sec \in sb |-> SectionStyles(sec)],
      SChecks |-> [sec \in sc |-> SectionChecks(sec)],
      Stylesheets |-> [sec \in st |-> SectionTransform(sec)]] :
        src \in SourcePaths, sb \in SUBSET SectionPatterns,
        sc \in SUBSET SectionPatterns, st \in SUBSET SectionPatterns}

NewFileInit ==
    /\ chk \in FileConfigs
    /\ txt = <<>>
    /\ ruleRes = NotRun
    /\ NoScan
    /\ newFiles = <<>>

\* one more call of NewFile with the same path and the same Config
NewFile ==
    /\ Len(newFiles) < MaxCalls
    /\ \E styleOrder \in Orders(DOMAIN chk.SBaseStyles),
          checkOrder \in Orders(DOMAIN chk.SChecks),
          sheetOrder \in Orders(DOMAIN chk.Stylesheets) :
        newFiles' = Append(newFiles,
                           NewFileOf(chk.Path, chk, styleOrder, checkOrder, sheetOrder))
    /\ UNCHANGED <<txt, chk, ruleRes, Sequences, scanned, nScans, compiled, runs>>

\* C19: two calls of NewFile with the same path and the same configuration
\* give the same BaseStyles, Checks and Transform, also when the path matches
\* the pattern of more than one section
C19_NewFileIsDeterministic ==
    \A i, j \in DOMAIN newFiles :
        /\ newFiles[i].BaseStyles = newFiles[j].BaseStyles
        /\ newFiles[i].Checks = newFiles[j].Checks
        /\ newFiles[i].Transform = newFiles[j].Transform

\* the subsystems that a specification of the rules or the manager leaves alone
AppIdleInit == MainIdleInit /\ NewFileIdleInit
AppIdle == MainIdle /\ NewFileIdle

(***************************************************************************)
(* Specifications                                                          *)
(***************************************************************************)
CommentsNext ==
    \/ UpdateComments /\ SelectorIdle /\ ManagerIdle /\ FileIdle /\ RuleIdle /\ AppIdle
    \/ ResetComments /\ SelectorIdle /\ ManagerIdle /\ FileIdle /\ RuleIdle /\ AppIdle

InitComments == CommentsInit /\ SelectorIdleInit /\ ManagerIdleInit /\ FileIdleInit /\ RuleIdleInit /\ AppIdleInit

SpecComments == InitComments /\ [][CommentsNext]_vars

SelectorNext ==
    \/ CallContains /\ CommentsIdle /\ ManagerIdle /\ FileIdle /\ RuleIdle /\ AppIdle
    \/ CallEqual /\ CommentsIdle /\ ManagerIdle /\ FileIdle /\ RuleIdle /\ AppIdle
    \/ CallHas /\ CommentsIdle /\ ManagerIdle /\ FileIdle /\ RuleIdle /\ AppIdle

InitSelector == SelectorInit /\ CommentsInit /\ ManagerIdleInit /\ FileIdleInit /\ RuleIdleInit /\ AppIdleInit

SpecSelector == InitSelector /\ [][SelectorNext]_vars

ManagerNext == WalkEntry /\ CommentsIdle /\ SelectorIdle /\ FileIdle /\ RuleIdle /\ AppIdle

InitManager == ManagerInit /\ CommentsInit /\ SelectorIdleInit /\ FileIdleInit /\ RuleIdleInit /\ AppIdleInit

SpecManager == InitManager /\ [][ManagerNext]_vars

FileNext ==
    \/ AddAlert /\ CommentsIdle /\ SelectorIdle /\ ManagerIdle /\ RuleIdle /\ AppIdle
    \/ NewBlock /\ CommentsIdle /\ SelectorIdle /\ ManagerIdle /\ RuleIdle /\ AppIdle

InitFile ==
    FileInit /\ CommentsInit /\ SelectorIdleInit /\ ManagerIdleInit /\ RuleIdleInit /\ AppIdleInit

SpecFile == InitFile /\ [][FileNext]_vars

RulesIdle == CommentsIdle /\ SelectorIdle /\ ManagerIdle /\ FileIdle /\ AppIdle

OccurrenceNext == RunOccurrence /\ RulesIdle

InitOccurrence ==
    /\ OccurrenceInit
    /\ CommentsInit /\ SelectorIdleInit /\ ManagerIdleInit /\ FileIdleInit /\ AppIdleInit

SpecOccurrence == InitOccurrence /\ [][OccurrenceNext]_vars

RepetitionNext == RunRepetition /\ RulesIdle

InitRepetition ==
    /\ RepetitionInit
    /\ CommentsInit /\ SelectorIdleInit /\ ManagerIdleInit /\ FileIdleInit /\ AppIdleInit

SpecRepetition == InitRepetition /\ [][RepetitionNext]_vars

ConsistencyNext == ScanConsistency /\ RulesIdle

InitConsistency ==
    /\ ConsistencyInit
    /\ CommentsInit /\ SelectorIdleInit /\ ManagerIdleInit /\ FileIdleInit /\ AppIdleInit

SpecConsistency == InitConsistency /\ [][ConsistencyNext]_vars

ConditionalNext == ScanConditional /\ RulesIdle

InitConditional ==
    /\ ConditionalInit
    /\ CommentsInit /\ SelectorIdleInit /\ ManagerIdleInit /\ FileIdleInit /\ AppIdleInit

SpecConditional == InitConditional /\ [][ConditionalNext]_vars

SubstitutionNext ==
    \/ LoadSubstitution /\ RulesIdle
    \/ RunSubstitution /\ RulesIdle

InitSubstitution ==
    /\ SubstitutionInit
    /\ CommentsInit /\ SelectorIdleInit /\ ManagerIdleInit /\ FileIdleInit /\ AppIdleInit

SpecSubstitution == InitSubstitution /\ [][SubstitutionNext]_vars

ExistenceNext == RunExistence /\ RulesIdle

InitExistence ==
    /\ ExistenceInit
    /\ CommentsInit /\ SelectorIdleInit /\ ManagerIdleInit /\ FileIdleInit /\ AppIdleInit

SpecExistence == InitExistence /\ [][ExistenceNext]_vars

VocabNext == NewManager /\ CommentsIdle /\ SelectorIdle /\ FileIdle /\ AppIdle

InitVocab ==
    /\ VocabInit
    /\ CommentsInit /\ SelectorIdleInit /\ FileIdleInit /\ AppIdleInit

SpecVocab == InitVocab /\ [][VocabNext]_vars

SequenceNext == RunSequence /\ RulesIdle

InitSequence ==
    /\ SequenceInit
    /\ CommentsInit /\ SelectorIdleInit /\ ManagerIdleInit /\ FileIdleInit /\ AppIdleInit

SpecSequence == InitSequence /\ [][SequenceNext]_vars

NewExistenceNext == CallNewExistence /\ RulesIdle

InitNewExistence ==
    /\ NewExistenceInit
    /\ CommentsInit /\ SelectorIdleInit /\ ManagerIdleInit /\ FileIdleInit /\ AppIdleInit

SpecNewExistence == InitNewExistence /\ [][NewExistenceNext]_vars

InvokeNext == Invoke /\ RulesIdle

InitInvoke ==
    /\ InvokeInit
    /\ CommentsInit /\ SelectorIdleInit /\ ManagerIdleInit /\ FileIdleInit /\ AppIdleInit

SpecInvoke == InitInvoke /\ [][InvokeNext]_vars

SharedNext == ScanShared /\ RulesIdle

InitShared ==
    /\ SharedInit
    /\ CommentsInit /\ SelectorIdleInit /\ ManagerIdleInit /\ FileIdleInit /\ AppIdleInit

SpecShared == InitShared /\ [][SharedNext]_vars

MainNext == Main /\ CommentsIdle /\ SelectorIdle /\ ManagerIdle /\ FileIdle /\ RuleIdle /\ NewFileIdle

InitMain ==
    /\ MainInit
    /\ CommentsInit /\ SelectorIdleInit /\ ManagerIdleInit /\ FileIdleInit
    /\ RuleIdleInit /\ NewFileIdleInit

SpecMain == InitMain /\ [][MainNext]_vars

NewFileNext ==
    NewFile /\ CommentsIdle /\ SelectorIdle /\ ManagerIdle /\ FileIdle /\ MainIdle

InitNewFile ==
    /\ NewFileInit
    /\ CommentsInit /\ SelectorIdleInit /\ ManagerIdleInit /\ FileIdleInit
    /\ MainIdleInit

SpecNewFile == InitNewFile /\ [][NewFileNext]_vars

====
